---------------------------- MODULE Spec2Model ----------------------------
(***************************************************************************)
(* The ingestion engine of the Kasparro backend: the three source          *)
(* pipelines (extract / transform / load / run), the storage operations    *)
(* they call on DatabaseService, and ETLOrchestrator.run_full_etl.         *)
(*                                                                         *)
(* Every coroutine is a task; its position is ppc (pipeline) and opc       *)
(* (orchestrator).  One step is the code between two awaits, so each       *)
(* storage call is a step of its own.  The tables of the database are      *)
(* sequences in insertion order.  db_calls and run_calls record the calls  *)
(* a run has issued, in the way a recording mock of the collaborator does, *)
(* and ended records how each pipeline call came back to its caller.       *)
(***************************************************************************)
EXTENDS Integers, Sequences, FiniteSets, TLC

VARIABLES
    \* ---- DatabaseService tables
    crypto_data,        \* rows of crypto_data, UNIQUE(source, symbol, last_updated)
    raw_tables,         \* rows of raw_coinpaprika / raw_coingecko / raw_csv
    etl_checkpoints,    \* rows of etl_checkpoints, in created_at order
    etl_runs,           \* rows of etl_runs
    schema_drift_logs,  \* rows of schema_drift_logs
    \* ---- environment
    upstream,           \* what each source currently serves (API list, CSV rows)
    settings,           \* the Settings the process was started with
    now,                \* the wall clock read by datetime.now()
    given,              \* the list the driver hands to load() when it calls it
    ncalls,             \* top-level calls made so far
    entry,              \* what the driver calls: run_full_etl, run, load, transform,
                        \* calculate_backoff (backoff) or two run()s at once (pair)
    target,             \* the pipeline the driver calls (one per task for a pair)
    \* ---- a pipeline call (per task)
    ppc, src, start_time, raw_data, normalized_data, retry_count, waits,
    i, total_loaded, exc, result, db_calls,
    \* ---- a run_full_etl call (per task)
    opc, idx, results, total_records, failed_sources, summary, run_calls,
    \* ---- what the caller has seen of the pipeline calls it made (per task)
    ended

storage == <<crypto_data, raw_tables, etl_checkpoints, etl_runs, schema_drift_logs>>
\* fixed for the life of the process
fixed == <<upstream, given, settings, entry, target>>
environment == <<fixed, now, ncalls>>
extractLocals == <<retry_count, waits>>
loadLocals == <<i, total_loaded>>
pipeLocals == <<ppc, src, start_time, raw_data, normalized_data, retry_count,
                waits, i, total_loaded, exc, result, db_calls>>
orchLocals == <<opc, idx, results, total_records, failed_sources, summary,
                run_calls, ended>>
vars == <<storage, environment, pipeLocals, orchLocals>>

-----------------------------------------------------------------------------
(* Bounds of the model *)

\* longest list a source serves
MaxRecs == 2
\* calls of load() the driver makes in a behaviour
MaxCalls == 2
\* calls of run_full_etl, or of run() by the driver, in a behaviour
MaxRuns == 1

\* checkpoint intervals the process may be configured with (the default, 50,
\* would need lists of more than 50 records to show a second batch)
Intervals == {1, 2}

\* retry counts 0..MaxRetry are handed to calculate_backoff
MaxRetry == 7

\* configurations calculate_backoff is tried under, the default among them
BaseDelays == {0, 1, 3}
Factors == {1, 2, 3}
MaxDelays == {2, 10, 60}

\* the field names and similarity scores detect_schema_drift is tried on
ExpectedKeys == {"a", "b", "c"}
ObservedKeys == {"a", "b", "d", "e"}
Scores == {0, 79, 80, 92}
\* the pairs of names that may look alike; every other pair scores 0
ScoredPairs == {"b", "c"} \X {"d", "e"}
\* calls of run_single_source in one behaviour
MaxSingle == 2
\* checkpoint calls in one behaviour, and the sources, markers and record
\* counts they are made with
MaxOps == 4
CheckpointSources == {"coinpaprika", "coingecko"}
Markers == {1, 2}
Counts == {1, 2}
\* the longest list and the checkpoint intervals the batching loop is tried on
MaxBatchRecs == 3
BatchIntervals == {1, 2, 3}
\* how many times in a row run() is called on one pipeline
MaxReruns == 2
-----------------------------------------------------------------------------
(* Program constants *)

ETL_MAX_RETRIES == 3
BACKOFF_BASE_DELAY == 1
BACKOFF_MAX_DELAY == 60
BACKOFF_FACTOR == 2
TopN == 100
\* SCHEMA_DRIFT_THRESHOLD = 0.8, in hundredths
SCHEMA_DRIFT_THRESHOLD == 80

Sources == {"coinpaprika", "coingecko", "csv"}
\* self.pipelines, a dict: iteration is insertion order
PipelineOrder == <<"coinpaprika", "coingecko", "csv">>
\* the pipelines whose load() batches and checkpoints
BatchingSources == {"coinpaprika", "coingecko"}

Tasks == DOMAIN ppc

Min(a, b) == IF a <= b THEN a ELSE b

Range(s) == {s[k] : k \in 1..Len(s)}

SeqsUpTo(S, n) == UNION {[1..k -> S] : k \in 0..n}

-----------------------------------------------------------------------------
(* DatabaseService *)

NoCheckpoint == [found |-> FALSE, last_index |-> 0, records_processed |-> 0]

SameKey(a, b) ==
    /\ a.source = b.source
    /\ a.symbol = b.symbol
    /\ a.last_updated = b.last_updated

\* InsertNormalized without the ON CONFLICT clause taking effect
InsertNormalizedAlways(table, record) == Append(table, record)

\* INSERT INTO crypto_data ... ON CONFLICT (source, symbol, last_updated) DO NOTHING
InsertNormalized(table, record) ==
    IF \E k \in 1..Len(table) : SameKey(table[k], record)
    THEN table
    ELSE Append(table, record)

RECURSIVE save_normalized_data(_, _)
save_normalized_data(table, records) ==
    IF records = <<>> THEN table
    ELSE save_normalized_data(InsertNormalized(table, Head(records)), Tail(records))

\* save_raw_data, were a payload of a (source, source_id) stored once only
RECURSIVE save_raw_data_once(_, _, _, _)
save_raw_data_once(table, source, data, source_ids) ==
    IF data = <<>> THEN table
    ELSE save_raw_data_once(
            IF \E k \in 1..Len(table) :
                  table[k].source = source /\ table[k].source_id = Head(source_ids)
            THEN table
            ELSE Append(table, [source |-> source, data |-> Head(data),
                                source_id |-> Head(source_ids)]),
            source, Tail(data), Tail(source_ids))

RECURSIVE save_raw_data(_, _, _, _)
save_raw_data(table, source, data, source_ids) ==
    IF data = <<>> THEN table
    ELSE save_raw_data(
            Append(table, [source |-> source, data |-> Head(data),
                           source_id |-> Head(source_ids)]),
            source, Tail(data), Tail(source_ids))

save_checkpoint(table, source, checkpoint_data, records_processed) ==
    Append(table, [source |-> source, last_index |-> checkpoint_data,
                   records_processed |-> records_processed, completed |-> FALSE])

\* get_last_checkpoint without the `AND NOT completed` of its WHERE clause
get_last_checkpoint_of_any(table, source) ==
    LET rows == {k \in 1..Len(table) : table[k].source = source}
    IN  IF rows = {} THEN NoCheckpoint
        ELSE LET k == CHOOSE m \in rows : \A n \in rows : n <= m
             IN  [found |-> TRUE, last_index |-> table[k].last_index,
                  records_processed |-> table[k].records_processed]

\* get_last_checkpoint with ORDER BY created_at ascending
get_first_checkpoint(table, source) ==
    LET open == {k \in 1..Len(table) :
                    table[k].source = source /\ ~table[k].completed}
    IN  IF open = {} THEN NoCheckpoint
        ELSE LET k == CHOOSE m \in open : \A n \in open : m <= n
             IN  [found |-> TRUE, last_index |-> table[k].last_index,
                  records_processed |-> table[k].records_processed]

get_last_checkpoint(table, source) ==
    LET open == {k \in 1..Len(table) :
                    table[k].source = source /\ ~table[k].completed}
    IN  IF open = {} THEN NoCheckpoint
        ELSE LET k == CHOOSE m \in open : \A n \in open : n <= m
             IN  [found |-> TRUE, last_index |-> table[k].last_index,
                  records_processed |-> table[k].records_processed]

\* mark_checkpoint_completed without the `source = $1` of its WHERE clause
mark_every_checkpoint_completed(table, source) ==
    [k \in 1..Len(table) |->
        IF ~table[k].completed
        THEN [table[k] EXCEPT !.completed = TRUE]
        ELSE table[k]]

\* mark_checkpoint_completed updating the latest open checkpoint only
mark_latest_checkpoint_completed(table, source) ==
    LET open == {k \in 1..Len(table) :
                    table[k].source = source /\ ~table[k].completed}
    IN  [k \in 1..Len(table) |->
            IF k \in open /\ \A n \in open : n <= k
            THEN [table[k] EXCEPT !.completed = TRUE]
            ELSE table[k]]

mark_checkpoint_completed(table, source) ==
    [k \in 1..Len(table) |->
        IF table[k].source = source /\ ~table[k].completed
        THEN [table[k] EXCEPT !.completed = TRUE]
        ELSE table[k]]

log_run(table, source, status, records, start, end, error) ==
    Append(table, [source |-> source, status |-> status,
                   records_processed |-> records, start_time |-> start,
                   end_time |-> end, error_message |-> error])


-----------------------------------------------------------------------------
(* Records *)

\* symbols as the sources spell them, and str.upper() of each
RawSymbols == {"BTC", "eth"}

Upper(sym) ==
    CASE sym = "eth" -> "ETH"
      [] sym = "btc" -> "BTC"
      [] OTHER -> sym

\* a raw item: how it is laid out, and the symbol it carries
\*   ok       a mapping with the fields and types the source declares
\*   renamed  the same with the field "symbol" spelled "symbols"
\*   unknown  the mapping {"invalid": "data"}
\*   notdict  not a mapping at all (a string, a number, null)
Shapes == {"ok", "renamed", "mistyped", "unknown", "notdict"}

Item(shape, symbol) == [shape |-> shape, symbol |-> symbol]

\* a normalized record ready for load(): {"source", "symbol", "last_updated", "raw_data"}
Normalized(source, symbol, last_updated, item) ==
    [source |-> source, symbol |-> symbol, last_updated |-> last_updated,
     raw_data |-> item]

\* the dict run() returns, and the entry the orchestrator keeps for a source
NoResult == [status |-> "none", records_processed |-> 0, error |-> "none"]

\* one call on the storage collaborator: the operation, whether it returned
\* normally, and its size arguments
Call(op, ok, n, m) == [op |-> op, ok |-> ok, n |-> n, m |-> m]

Issue(t, call) == db_calls' = [db_calls EXCEPT ![t] = Append(@, call)]

RECURSIVE RawOf(_)
RawOf(records) ==
    IF records = <<>> THEN <<>> ELSE <<Head(records).raw_data>> \o RawOf(Tail(records))

RECURSIVE SymbolsOf(_)
SymbolsOf(records) ==
    IF records = <<>> THEN <<>> ELSE <<Head(records).symbol>> \o SymbolsOf(Tail(records))

\* where a failing statement of an executemany-style loop stops: the first j
\* rows are in, row j+1 raised (j = 0 also when acquiring the connection fails)
FailPoints(records) == 0..(IF Len(records) = 0 THEN 0 ELSE Len(records) - 1)

\* an exception e leaves the current stage; control goes to `to`
Raise(t, e, to) ==
    /\ exc' = [exc EXCEPT ![t] = e]
    /\ ppc' = [ppc EXCEPT ![t] = to]

\* retry_count and the backoff delays slept stay as extract() left them until
\* the caller's next step, which is where they are gone
ExtractLocalsGone(t) ==
    /\ retry_count' = [retry_count EXCEPT ![t] = 0]
    /\ waits' = [waits EXCEPT ![t] = <<>>]

\* a pipeline call came back to its caller: the caller has seen it return
\* (with the dict it returned) or raise, and the frame of the call is gone
Ended(t) ==
    /\ ppc[t] \in {"returned", "raised"}
    /\ ended' = [ended EXCEPT ![t] =
                    Append(@, [source |-> src[t], outcome |-> ppc[t],
                               records_processed |-> result[t].records_processed])]
    /\ ppc' = [ppc EXCEPT ![t] = "idle"]
    /\ src' = [src EXCEPT ![t] = "none"]
    /\ start_time' = [start_time EXCEPT ![t] = 0]
    /\ raw_data' = [raw_data EXCEPT ![t] = <<>>]
    /\ normalized_data' = [normalized_data EXCEPT ![t] = <<>>]
    /\ exc' = [exc EXCEPT ![t] = "none"]
    /\ result' = [result EXCEPT ![t] = NoResult]
    /\ db_calls' = [db_calls EXCEPT ![t] = <<>>]
    /\ ExtractLocalsGone(t)
    /\ UNCHANGED loadLocals
-----------------------------------------------------------------------------
(* BasePipeline.calculate_backoff and detect_schema_drift *)

RECURSIVE Pow(_, _)
Pow(b, n) == IF n = 0 THEN 1 ELSE b * Pow(b, n - 1)

\* calculate_backoff without the cap of BACKOFF_MAX_DELAY
calculate_backoff_uncapped(retry) ==
    settings.BACKOFF_BASE_DELAY * Pow(settings.BACKOFF_FACTOR, retry)

calculate_backoff(retry) ==
    Min(settings.BACKOFF_BASE_DELAY * Pow(settings.BACKOFF_FACTOR, retry),
        settings.BACKOFF_MAX_DELAY)

get_expected_schema(source) ==
    CASE source = "coinpaprika" -> {"id", "name", "symbol", "rank", "quotes"}
      [] source = "coingecko" ->
            {"id", "symbol", "name", "current_price", "market_cap", "total_volume",
             "price_change_percentage_24h", "market_cap_rank"}
      [] OTHER ->
            {"symbol", "name", "price", "market_cap", "volume_24h",
             "percent_change_24h", "rank"}

\* sample_data.keys() of a mapping item
KeysOf(source, item) ==
    CASE item.shape \in {"ok", "mistyped"} -> get_expected_schema(source)
      [] item.shape = "renamed" ->
            (get_expected_schema(source) \ {"symbol"}) \cup {"symbols"}
      [] OTHER -> {"invalid"}

\* 100 * SequenceMatcher(None, a, b).ratio(), rounded down, for the field
\* names that occur: "symbol"/"symbols" match 6 of 13 characters twice over,
\* "id"/"invalid" 2 of 9; every other pair scores less still and is given as 0
Ratio(a, b) ==
    CASE a = "symbol" /\ b = "symbols" -> 92
      [] a = "id" /\ b = "invalid" -> 44
      [] OTHER -> 0

\* missing_keys = expected_keys - actual_keys
missing_keys(expected_keys, actual_keys) == expected_keys \ actual_keys

\* extra_keys = actual_keys - expected_keys
extra_keys(expected_keys, actual_keys) == actual_keys \ expected_keys

\* best_score after the loop over the extra keys: it starts at 0 and is
\* replaced by every strictly larger score; score[<<m, a>>] is what
\* SequenceMatcher(None, m, a).ratio() gives, in hundredths
best_score(m, extra, score) ==
    LET scores == {score[<<m, a>>] : a \in extra} \cup {0}
    IN  CHOOSE s \in scores : \A r \in scores : r <= s

\* the values best_match can have after the loop: the extra key that was
\* first to reach best_score in the iteration order of the set, which is any
\* of those that reach it; None when no extra key scores above 0
best_matches(m, extra, score) ==
    IF best_score(m, extra, score) = 0 THEN {"None"}
    ELSE {a \in extra : score[<<m, a>>] = best_score(m, extra, score)}

\* the keys of fuzzy_matches: the missing keys whose best score reaches the
\* threshold; each yields one "Possible field rename" warning
fuzzy_matches(expected_keys, actual_keys, score) ==
    {m \in missing_keys(expected_keys, actual_keys) :
        best_score(m, extra_keys(expected_keys, actual_keys), score)
            >= SCHEMA_DRIFT_THRESHOLD}

\* confidence = matched / total_expected, as the pair of the two integers;
\* 1.0 when total_expected is 0
confidence(expected_keys, actual_keys, score) ==
    IF Cardinality(expected_keys) = 0 THEN [matched |-> 1, total_expected |-> 1]
    ELSE [matched |-> Cardinality(expected_keys \cap actual_keys)
                        + Cardinality(fuzzy_matches(expected_keys, actual_keys, score)),
          total_expected |-> Cardinality(expected_keys)]

\* the keys present under both names whose value is neither None nor of the
\* expected type; mistyped is the set of keys of the sample with such a value
type_mismatches(expected_keys, actual_keys, mistyped) ==
    (expected_keys \cap actual_keys) \cap mistyped

\* the list of warnings, as a set: "Possible field rename: 'key' -> 'match'"
\* for every entry of fuzzy_matches (a function from missing keys to their
\* best match) and "Type mismatch for 'key'" for every mistyped key
warnings_of(fm, tm) ==
    {[kind |-> "rename", key |-> m, match |-> fm[m]] : m \in DOMAIN fm}
        \cup {[kind |-> "type", key |-> k, match |-> "None"] : k \in tm}

\* the values fuzzy_matches can have once the loop over the missing keys is over
FuzzyChoices(expected_keys, actual_keys, score) ==
    {fm \in [fuzzy_matches(expected_keys, actual_keys, score) ->
                actual_keys \cup {"None"}] :
        \A m \in DOMAIN fm :
            fm[m] \in best_matches(m, extra_keys(expected_keys, actual_keys), score)}

\* the scores of the missing keys of an item against its extra keys
RatioOf(source, item) ==
    [p \in missing_keys(get_expected_schema(source), KeysOf(source, item))
            \X extra_keys(get_expected_schema(source), KeysOf(source, item)) |->
        Ratio(p[1], p[2])]

FuzzyMatches(source, item) ==
    fuzzy_matches(get_expected_schema(source), KeysOf(source, item),
                  RatioOf(source, item))

\* the field of a "mistyped" item whose value is of no expected type: a
\* string for CoinPaprika's quotes (dict) and for CoinGecko's current_price
\* (int, float), a list for the price of a CSV row (int, float, str)
MistypedField(source) ==
    CASE source = "coinpaprika" -> "quotes"
      [] source = "coingecko" -> "current_price"
      [] OTHER -> "price"

MistypedOf(source, item) ==
    IF item.shape = "mistyped" THEN {MistypedField(source)} ELSE {}

\* the warnings of detect_schema_drift(sample_data) inside transform(); no two
\* extra keys of the items modelled score the same
Warnings(source, item) ==
    warnings_of(CHOOSE fm \in FuzzyChoices(get_expected_schema(source),
                                           KeysOf(source, item),
                                           RatioOf(source, item)) : TRUE,
                type_mismatches(get_expected_schema(source), KeysOf(source, item),
                                MistypedOf(source, item)))

Confidence(source, item) ==
    confidence(get_expected_schema(source), KeysOf(source, item),
               RatioOf(source, item))

log_schema_drift(table, source, conf, warnings) ==
    Append(table, [source |-> source, confidence |-> conf, warnings |-> warnings])

\* detect_schema_drift(sample_data) called on its own, on a pipeline whose
\* get_expected_schema() has the keys given.expected; the sample has the keys
\* given.actual, the values of given.mistyped are of another type than
\* expected, and SequenceMatcher scores a pair of names as given.score says

\* confidence of the call, from the keys alone
GivenConfidenceOfKeys ==
    [matched |-> Cardinality(given.expected \cap given.actual),
     total_expected |-> Cardinality(given.expected)]

\* confidence of the call, were every pair of a missing and an extra key that
\* look alike counted as a match
GivenConfidenceOfPairs ==
    [matched |-> Cardinality(given.expected \cap given.actual)
                    + Cardinality({p \in missing_keys(given.expected, given.actual)
                                            \X extra_keys(given.expected, given.actual) :
                                      given.score[p] >= SCHEMA_DRIFT_THRESHOLD}),
     total_expected |-> IF given.expected = {} THEN 1 ELSE Cardinality(given.expected)]

GivenConfidence == confidence(given.expected, given.actual, given.score)

\* the locals of detect_schema_drift when it reaches "if warnings:"
DriftLocals(fm) ==
    [missing_keys |-> missing_keys(given.expected, given.actual),
     extra_keys |-> extra_keys(given.expected, given.actual),
     fuzzy_matches |-> fm,
     confidence |-> GivenConfidence,
     warnings |-> warnings_of(fm, type_mismatches(given.expected, given.actual,
                                                  given.mistyped))]

detectFrame == <<crypto_data, raw_tables, etl_checkpoints, etl_runs, fixed, now,
                 ncalls, src, start_time, raw_data, normalized_data,
                 extractLocals, loadLocals, orchLocals>>

\* no warnings: nothing is logged
DetectSilent(t) ==
    /\ ppc[t] = "detect"
    /\ \E fm \in FuzzyChoices(given.expected, given.actual, given.score) :
          /\ DriftLocals(fm).warnings = {}
          /\ result' = [result EXCEPT ![t] = DriftLocals(fm)]
    /\ ppc' = [ppc EXCEPT ![t] = "returned"]
    /\ UNCHANGED <<detectFrame, schema_drift_logs, exc, db_calls>>

\* if warnings: await self.db.log_schema_drift(...)
DetectLogDrift(t) ==
    /\ ppc[t] = "detect"
    /\ \E fm \in FuzzyChoices(given.expected, given.actual, given.score) :
          /\ DriftLocals(fm).warnings # {}
          /\ result' = [result EXCEPT ![t] = DriftLocals(fm)]
          /\ schema_drift_logs' =
                log_schema_drift(schema_drift_logs, src[t],
                                 DriftLocals(fm).confidence, DriftLocals(fm).warnings)
    /\ Issue(t, Call("log_schema_drift", TRUE, 0, 0))
    /\ ppc' = [ppc EXCEPT ![t] = "returned"]
    /\ UNCHANGED <<detectFrame, exc>>

DetectLogDriftFails(t) ==
    /\ ppc[t] = "detect"
    /\ \E fm \in FuzzyChoices(given.expected, given.actual, given.score) :
          /\ DriftLocals(fm).warnings # {}
          /\ result' = [result EXCEPT ![t] = DriftLocals(fm)]
    /\ Issue(t, Call("log_schema_drift", FALSE, 0, 0))
    /\ ppc' = [ppc EXCEPT ![t] = "raised"]
    /\ exc' = [exc EXCEPT ![t] = "log_schema_drift"]
    /\ UNCHANGED <<detectFrame, schema_drift_logs>>
-----------------------------------------------------------------------------
(* extract() *)

\* what no step of extract() touches
extractFrame == <<storage, environment, src, start_time, normalized_data,
                  loadLocals, orchLocals>>

\* Extracted without the early return on an empty result
ExtractedGoesOn(t, data) ==
    /\ raw_data' = [raw_data EXCEPT ![t] = data]
    /\ exc' = exc
    /\ result' = result
    /\ ppc' = [ppc EXCEPT ![t] = IF entry = "extract" THEN "returned" ELSE "transform"]

\* extract() returned data: to the driver when it called extract() itself,
\* else to run(), where an empty result ends the run at once, with a success
\* result and without a log_run
Extracted(t, data) ==
    /\ raw_data' = [raw_data EXCEPT ![t] = data]
    /\ exc' = exc
    /\ IF entry = "extract"
       THEN /\ result' = result
            /\ ppc' = [ppc EXCEPT ![t] = "returned"]
       ELSE IF data = <<>>
       THEN /\ result' = [result EXCEPT ![t] =
                            [status |-> "success", records_processed |-> 0,
                             error |-> "none"]]
            /\ ppc' = [ppc EXCEPT ![t] = "returned"]
       ELSE /\ result' = result
            /\ ppc' = [ppc EXCEPT ![t] = "transform"]

\* extract() is left by an exception, which run() catches
ExtractRaises(t, e) ==
    /\ Raise(t, e, IF entry = "extract" THEN "raised" ELSE "except")
    /\ UNCHANGED <<raw_data, result>>

\* CoinPaprikaPipeline.extract: checkpoint = await self.db.get_last_checkpoint(...)
\* (the checkpoint found is logged, nothing else)
ExtractCheckpoint(t) ==
    /\ ppc[t] = "extract_checkpoint"
    /\ Issue(t, Call("get_last_checkpoint", TRUE,
                     get_last_checkpoint(etl_checkpoints, src[t]).records_processed, 0))
    /\ ppc' = [ppc EXCEPT ![t] = "fetch"]
    /\ UNCHANGED <<extractFrame, raw_data, extractLocals, exc, result>>

ExtractCheckpointFails(t) ==
    /\ ppc[t] = "extract_checkpoint"
    /\ Issue(t, Call("get_last_checkpoint", FALSE, 0, 0))
    /\ ExtractRaises(t, "get_last_checkpoint")
    /\ UNCHANGED <<extractFrame, extractLocals>>

\* Served, were the items up to the last_index of the open checkpoint skipped
ServedAfterCheckpoint(source) ==
    SubSeq(upstream[source],
           get_last_checkpoint(etl_checkpoints, source).last_index + 1,
           Len(upstream[source]))

\* data[:100] for CoinPaprika, data for CoinGecko
Served(source) ==
    IF source = "coinpaprika"
    THEN SubSeq(upstream[source], 1, Min(TopN, Len(upstream[source])))
    ELSE upstream[source]

\* an attempt of the while loop answered 200 with the list
Fetch200(t) ==
    /\ ppc[t] = "fetch"
    /\ retry_count[t] < ETL_MAX_RETRIES
    /\ Extracted(t, Served(src[t]))
    /\ UNCHANGED <<extractFrame, extractLocals, db_calls>>

\* an attempt of the while loop answered 200 with an empty list: the source has
\* nothing to serve at the moment
Fetch200Empty(t) ==
    /\ ppc[t] = "fetch"
    /\ retry_count[t] < ETL_MAX_RETRIES
    /\ Extracted(t, <<>>)
    /\ UNCHANGED <<extractFrame, extractLocals, db_calls>>

\* Fetch429 without the sleep of the backoff delay
Fetch429NoWait(t) ==
    /\ ppc[t] = "fetch"
    /\ retry_count[t] < ETL_MAX_RETRIES
    /\ retry_count' = [retry_count EXCEPT ![t] = @ + 1]
    /\ UNCHANGED <<extractFrame, waits, ppc, raw_data, exc, result, db_calls>>

\* an attempt answered 429: back off calculate_backoff(retry_count), then count
Fetch429(t) ==
    /\ ppc[t] = "fetch"
    /\ retry_count[t] < ETL_MAX_RETRIES
    /\ waits' = [waits EXCEPT ![t] = Append(@, calculate_backoff(retry_count[t]))]
    /\ retry_count' = [retry_count EXCEPT ![t] = @ + 1]
    /\ UNCHANGED <<extractFrame, ppc, raw_data, exc, result, db_calls>>

\* an attempt raised aiohttp.ClientError: count, then back off and go round again
FetchClientError(t) ==
    /\ ppc[t] = "fetch"
    /\ retry_count[t] + 1 < ETL_MAX_RETRIES
    /\ retry_count' = [retry_count EXCEPT ![t] = @ + 1]
    /\ waits' = [waits EXCEPT ![t] = Append(@, calculate_backoff(retry_count[t] + 1))]
    /\ UNCHANGED <<extractFrame, ppc, raw_data, exc, result, db_calls>>

\* the last permitted attempt raised aiohttp.ClientError: counted, re-raised
FetchClientErrorLast(t) ==
    /\ ppc[t] = "fetch"
    /\ retry_count[t] < ETL_MAX_RETRIES
    /\ retry_count[t] + 1 >= ETL_MAX_RETRIES
    /\ retry_count' = [retry_count EXCEPT ![t] = @ + 1]
    /\ ExtractRaises(t, "ClientError")
    /\ UNCHANGED <<extractFrame, waits, db_calls>>

\* an attempt raised something that is no aiohttp.ClientError (a timeout):
\* no handler in extract() takes it
FetchOtherError(t) ==
    /\ ppc[t] = "fetch"
    /\ retry_count[t] < ETL_MAX_RETRIES
    /\ ExtractRaises(t, "TimeoutError")
    /\ UNCHANGED <<extractFrame, extractLocals, db_calls>>

\* FetchExhausted with a return of the empty all_data in place of the raise
FetchExhaustedReturnsEmpty(t) ==
    /\ ppc[t] = "fetch"
    /\ retry_count[t] >= ETL_MAX_RETRIES
    /\ Extracted(t, <<>>)
    /\ UNCHANGED <<extractFrame, extractLocals, db_calls>>

\* the while condition is false: raise Exception("Failed to extract data ...")
FetchExhausted(t) ==
    /\ ppc[t] = "fetch"
    /\ retry_count[t] >= ETL_MAX_RETRIES
    /\ ExtractRaises(t, "RetriesExhausted")
    /\ UNCHANGED <<extractFrame, extractLocals, db_calls>>

\* the rows create_sample_csv() writes, as _read_csv() reads them back
SampleCsv ==
    <<Item("ok", "BTC"), Item("ok", "ETH"), Item("ok", "BNB"), Item("ok", "SOL"),
      Item("ok", "ADA")>>

\* CSVPipeline.extract with no file at csv_path: create_sample_csv(), then
\* the rows of the file it wrote
CreateSampleCsv(t) ==
    /\ ppc[t] = "read_csv"
    /\ entry = "run_without_file"
    /\ Extracted(t, SampleCsv)
    /\ UNCHANGED <<extractFrame, extractLocals, db_calls>>

\* CSVPipeline.extract with the file in place: the rows of the file
ReadCsv(t) ==
    /\ ppc[t] = "read_csv"
    /\ entry # "run_without_file"
    /\ Extracted(t, upstream[src[t]])
    /\ UNCHANGED <<extractFrame, extractLocals, db_calls>>

\* reading the file raised: logged and re-raised
ReadCsvFails(t) ==
    /\ ppc[t] = "read_csv"
    /\ ExtractRaises(t, "IOError")
    /\ UNCHANGED <<extractFrame, extractLocals, db_calls>>

-----------------------------------------------------------------------------
(* transform() *)

\* what no step of transform() touches
transformFrame == <<fixed, ncalls, src, start_time, raw_data, loadLocals, result,
                    orchLocals>>

\* where control goes when transform() returns or raises: on into run(), or
\* to the driver when it called transform() itself
AfterTransform == IF entry = "transform" THEN "returned" ELSE "load"

\* AfterTransformRaise, were run() to go on to load() all the same
AfterTransformRaiseGoesOn == IF entry = "transform" THEN "raised" ELSE "load"
AfterTransformRaise == IF entry = "transform" THEN "raised" ELSE "except"

\* TransformItem with every record appended twice
TransformItemTwice(source, item, ts) ==
    IF item.shape = "ok"
    THEN <<Normalized(source, Upper(item.symbol), ts, item),
           Normalized(source, Upper(item.symbol), ts, item)>>
    ELSE <<>>

\* the try block of the loop over raw_data, for one item: the record appended,
\* or nothing when validation or conversion raised and the handler continued
TransformItem(source, item, ts) ==
    CASE source = "coinpaprika" ->
            IF item.shape = "ok"
            THEN <<Normalized(source, item.symbol, ts, item)>>
            ELSE <<>>
      [] source = "coingecko" ->
            IF item.shape = "ok"
            THEN <<Normalized(source, Upper(item.symbol), ts, item)>>
            ELSE IF item.shape = "mistyped" THEN <<>>
            ELSE <<Normalized(source, "", ts, item)>>
      [] OTHER ->
            IF item.shape = "ok"
            THEN <<Normalized(source, Upper(item.symbol), ts, item)>>
            ELSE <<>>

\* CoinGecko's handlers format item.get('id', 'unknown') into the log line:
\* on an item that is no mapping the handler itself raises
HandlerRaises(source, item) == source = "coingecko" /\ item.shape = "notdict"

Valid(source, item) == TransformItem(source, item, 0) # <<>>

RECURSIVE SumTo(_, _)
SumTo(f, n) == IF n = 0 THEN 0 ELSE f[n] + SumTo(f, n - 1)

\* datetime.now() is read once per record built; between two reads the clock
\* may or may not have moved on
TickChoices(source, raw) ==
    {f \in [1..Len(raw) -> {0, 1}] :
        \A k \in 1..Len(raw) :
            (k = Len(raw) \/ ~Valid(source, raw[k])) => f[k] = 1}

RECURSIVE TransformLoop(_, _, _, _, _)
TransformLoop(source, raw, ticks, k, clock) ==
    IF k > Len(raw) THEN <<>>
    ELSE TransformItem(source, raw[k], clock)
            \o TransformLoop(source, raw, ticks, k + 1, clock + ticks[k])

\* the drift check at the head of transform() is over: it was disabled, the
\* batch was empty, or the first item gave no warning
DriftCheckSilent(t) ==
    IF ~settings.SCHEMA_DRIFT_ENABLED \/ raw_data[t] = <<>>
    THEN TRUE
    ELSE /\ raw_data[t][1].shape # "notdict"
         /\ Warnings(src[t], raw_data[t][1]) = {}

\* detect_schema_drift(raw_data[0]) on an item without keys(): AttributeError
TransformNotMapping(t) ==
    /\ ppc[t] = "transform"
    /\ settings.SCHEMA_DRIFT_ENABLED
    /\ raw_data[t] # <<>>
    /\ raw_data[t][1].shape = "notdict"
    /\ Raise(t, "AttributeError", AfterTransformRaise)
    /\ ExtractLocalsGone(t)
    /\ UNCHANGED <<transformFrame, storage, now, normalized_data, db_calls>>

\* TransformLogDrift, were the last item of the batch the sample
TransformLogDriftOfLast(t) ==
    /\ ppc[t] = "transform"
    /\ settings.SCHEMA_DRIFT_ENABLED
    /\ raw_data[t] # <<>>
    /\ raw_data[t][Len(raw_data[t])].shape # "notdict"
    /\ Warnings(src[t], raw_data[t][Len(raw_data[t])]) # {}
    /\ schema_drift_logs' = log_schema_drift(schema_drift_logs, src[t],
                                             Confidence(src[t], raw_data[t][Len(raw_data[t])]),
                                             Warnings(src[t], raw_data[t][Len(raw_data[t])]))
    /\ Issue(t, Call("log_schema_drift", TRUE, 0, 0))
    /\ ppc' = [ppc EXCEPT ![t] = "normalize"]
    /\ ExtractLocalsGone(t)
    /\ UNCHANGED <<transformFrame, crypto_data, raw_tables, etl_checkpoints,
                   etl_runs, now, normalized_data, exc>>

\* await self.db.log_schema_drift(...)
TransformLogDrift(t) ==
    /\ ppc[t] = "transform"
    /\ settings.SCHEMA_DRIFT_ENABLED
    /\ raw_data[t] # <<>>
    /\ raw_data[t][1].shape # "notdict"
    /\ Warnings(src[t], raw_data[t][1]) # {}
    /\ schema_drift_logs' = log_schema_drift(schema_drift_logs, src[t],
                                             Confidence(src[t], raw_data[t][1]),
                                             Warnings(src[t], raw_data[t][1]))
    /\ Issue(t, Call("log_schema_drift", TRUE, 0, 0))
    /\ ppc' = [ppc EXCEPT ![t] = "normalize"]
    /\ ExtractLocalsGone(t)
    /\ UNCHANGED <<transformFrame, crypto_data, raw_tables, etl_checkpoints,
                   etl_runs, now, normalized_data, exc>>

TransformLogDriftFails(t) ==
    /\ ppc[t] = "transform"
    /\ settings.SCHEMA_DRIFT_ENABLED
    /\ raw_data[t] # <<>>
    /\ raw_data[t][1].shape # "notdict"
    /\ Warnings(src[t], raw_data[t][1]) # {}
    /\ Issue(t, Call("log_schema_drift", FALSE, 0, 0))
    /\ Raise(t, "log_schema_drift", AfterTransformRaise)
    /\ ExtractLocalsGone(t)
    /\ UNCHANGED <<transformFrame, storage, now, normalized_data>>

\* the loop over raw_data, up to the return of transform()
TransformRecords(t) ==
    /\ \/ ppc[t] = "normalize"
       \/ ppc[t] = "transform" /\ DriftCheckSilent(t)
    /\ \A k \in 1..Len(raw_data[t]) : ~HandlerRaises(src[t], raw_data[t][k])
    /\ \E ticks \in TickChoices(src[t], raw_data[t]) :
          /\ normalized_data' = [normalized_data EXCEPT ![t] =
                                    TransformLoop(src[t], raw_data[t], ticks, 1, now)]
          /\ now' = now + SumTo(ticks, Len(raw_data[t]))
    /\ ppc' = [ppc EXCEPT ![t] = AfterTransform]
    /\ ExtractLocalsGone(t)
    /\ UNCHANGED <<transformFrame, storage, exc, db_calls>>

\* an except handler of the loop raised: transform() is left by the exception
TransformHandlerRaises(t) ==
    /\ \/ ppc[t] = "normalize"
       \/ ppc[t] = "transform" /\ DriftCheckSilent(t)
    /\ \E k \in 1..Len(raw_data[t]) : HandlerRaises(src[t], raw_data[t][k])
    /\ Raise(t, "AttributeError", AfterTransformRaise)
    /\ ExtractLocalsGone(t)
    /\ UNCHANGED <<transformFrame, storage, now, normalized_data, db_calls>>

-----------------------------------------------------------------------------
(* load() *)

\* what no step of load() touches
loadFrame == <<environment, src, start_time, raw_data, normalized_data,
               extractLocals, result, orchLocals>>

\* where control goes when load() returns or raises: back into run(), or to
\* the driver when it called load() itself
AfterLoad == IF entry = "load" THEN "returned" ELSE "log_success"
AfterLoadRaise == IF entry = "load" THEN "raised" ELSE "except"

\* load() returns: its locals are gone
LoadReturns(t) ==
    /\ ppc' = [ppc EXCEPT ![t] = AfterLoad]
    /\ i' = [i EXCEPT ![t] = 0]
    /\ total_loaded' = [total_loaded EXCEPT ![t] = 0]
    /\ exc' = exc

\* load() is left by the exception of a storage call
LoadRaises(t, e) ==
    /\ Raise(t, e, AfterLoadRaise)
    /\ i' = [i EXCEPT ![t] = 0]
    /\ total_loaded' = [total_loaded EXCEPT ![t] = 0]

\* Batch, were the slice to start at the head of the list
BatchFromStart(t) ==
    SubSeq(normalized_data[t], 1,
           Min(i[t] + settings.CHECKPOINT_INTERVAL, Len(normalized_data[t])))

\* normalized_data[i:i + batch_size]
Batch(t) ==
    SubSeq(normalized_data[t], i[t] + 1,
           Min(i[t] + settings.CHECKPOINT_INTERVAL, Len(normalized_data[t])))

\* await self.db.save_raw_data(...): the first statement of every load()
LoadSaveRaw(t) ==
    /\ ppc[t] = "load"
    /\ raw_tables' = save_raw_data(raw_tables, src[t], RawOf(normalized_data[t]),
                                   SymbolsOf(normalized_data[t]))
    /\ Issue(t, Call("save_raw_data", TRUE, Len(normalized_data[t]), 0))
    /\ i' = [i EXCEPT ![t] = 0]
    /\ total_loaded' = [total_loaded EXCEPT ![t] = 0]
    /\ ppc' = [ppc EXCEPT ![t] =
                  IF src[t] \in BatchingSources THEN "load_loop" ELSE "load_all"]
    /\ UNCHANGED <<loadFrame, crypto_data, etl_checkpoints, etl_runs,
                   schema_drift_logs, exc>>

LoadSaveRawFails(t) ==
    /\ ppc[t] = "load"
    /\ \E j \in FailPoints(normalized_data[t]) :
          raw_tables' = save_raw_data(raw_tables, src[t],
                                      SubSeq(RawOf(normalized_data[t]), 1, j),
                                      SubSeq(SymbolsOf(normalized_data[t]), 1, j))
    /\ Issue(t, Call("save_raw_data", FALSE, Len(normalized_data[t]), 0))
    /\ LoadRaises(t, "save_raw_data")
    /\ UNCHANGED <<loadFrame, crypto_data, etl_checkpoints, etl_runs,
                   schema_drift_logs>>

\* one turn of `for i in range(0, len(normalized_data), batch_size)`, up to the
\* await of save_checkpoint: the batch is written and counted
LoadBatch(t) ==
    /\ ppc[t] = "load_loop"
    /\ i[t] < Len(normalized_data[t])
    /\ crypto_data' = save_normalized_data(crypto_data, Batch(t))
    /\ Issue(t, Call("save_normalized_data", TRUE, Len(Batch(t)), 0))
    /\ total_loaded' = [total_loaded EXCEPT ![t] = @ + Len(Batch(t))]
    /\ IF settings.CHECKPOINT_ENABLED
       THEN /\ ppc' = [ppc EXCEPT ![t] = "load_checkpoint"]
            /\ i' = i
       ELSE /\ ppc' = ppc
            /\ i' = [i EXCEPT ![t] = @ + settings.CHECKPOINT_INTERVAL]
    /\ UNCHANGED <<loadFrame, raw_tables, etl_checkpoints, etl_runs,
                   schema_drift_logs, exc>>

\* LoadBatchFails with the exception caught in the loop and the batch counted:
\* load() goes on to the checkpoint of the batch
LoadBatchFailsCounted(t) ==
    /\ ppc[t] = "load_loop"
    /\ i[t] < Len(normalized_data[t])
    /\ \E j \in FailPoints(Batch(t)) :
          crypto_data' = save_normalized_data(crypto_data, SubSeq(Batch(t), 1, j))
    /\ Issue(t, Call("save_normalized_data", FALSE, Len(Batch(t)), 0))
    /\ total_loaded' = [total_loaded EXCEPT ![t] = @ + Len(Batch(t))]
    /\ IF settings.CHECKPOINT_ENABLED
       THEN /\ ppc' = [ppc EXCEPT ![t] = "load_checkpoint"]
            /\ i' = i
       ELSE /\ ppc' = ppc
            /\ i' = [i EXCEPT ![t] = @ + settings.CHECKPOINT_INTERVAL]
    /\ UNCHANGED <<loadFrame, raw_tables, etl_checkpoints, etl_runs,
                   schema_drift_logs, exc>>

\* LoadBatchFails with the exception caught in the loop and the batch skipped:
\* load() goes on to the next batch
LoadBatchFailsSkipped(t) ==
    /\ ppc[t] = "load_loop"
    /\ i[t] < Len(normalized_data[t])
    /\ \E j \in FailPoints(Batch(t)) :
          crypto_data' = save_normalized_data(crypto_data, SubSeq(Batch(t), 1, j))
    /\ Issue(t, Call("save_normalized_data", FALSE, Len(Batch(t)), 0))
    /\ i' = [i EXCEPT ![t] = @ + settings.CHECKPOINT_INTERVAL]
    /\ UNCHANGED <<loadFrame, raw_tables, etl_checkpoints, etl_runs,
                   schema_drift_logs, ppc, total_loaded, exc>>

\* save_normalized_data raised, after some rows of the batch or none
LoadBatchFails(t) ==
    /\ ppc[t] = "load_loop"
    /\ i[t] < Len(normalized_data[t])
    /\ \E j \in FailPoints(Batch(t)) :
          crypto_data' = save_normalized_data(crypto_data, SubSeq(Batch(t), 1, j))
    /\ Issue(t, Call("save_normalized_data", FALSE, Len(Batch(t)), 0))
    /\ LoadRaises(t, "save_normalized_data")
    /\ UNCHANGED <<loadFrame, raw_tables, etl_checkpoints, etl_runs,
                   schema_drift_logs>>

\* LoadCheckpoint recording the size of the batch in place of total_loaded
LoadCheckpointOfBatch(t) ==
    /\ ppc[t] = "load_checkpoint"
    /\ etl_checkpoints' = save_checkpoint(etl_checkpoints, src[t],
                              i[t] + settings.CHECKPOINT_INTERVAL, Len(Batch(t)))
    /\ Issue(t, Call("save_checkpoint", TRUE, Len(Batch(t)),
                     i[t] + settings.CHECKPOINT_INTERVAL))
    /\ i' = [i EXCEPT ![t] = @ + settings.CHECKPOINT_INTERVAL]
    /\ ppc' = [ppc EXCEPT ![t] = "load_loop"]
    /\ UNCHANGED <<loadFrame, crypto_data, raw_tables, etl_runs,
                   schema_drift_logs, total_loaded, exc>>

\* await self.db.save_checkpoint(...), then the next turn of the loop
LoadCheckpoint(t) ==
    /\ ppc[t] = "load_checkpoint"
    /\ etl_checkpoints' = save_checkpoint(etl_checkpoints, src[t],
                              i[t] + settings.CHECKPOINT_INTERVAL, total_loaded[t])
    /\ Issue(t, Call("save_checkpoint", TRUE, total_loaded[t],
                     i[t] + settings.CHECKPOINT_INTERVAL))
    /\ i' = [i EXCEPT ![t] = @ + settings.CHECKPOINT_INTERVAL]
    /\ ppc' = [ppc EXCEPT ![t] = "load_loop"]
    /\ UNCHANGED <<loadFrame, crypto_data, raw_tables, etl_runs,
                   schema_drift_logs, total_loaded, exc>>

LoadCheckpointFails(t) ==
    /\ ppc[t] = "load_checkpoint"
    /\ Issue(t, Call("save_checkpoint", FALSE, total_loaded[t],
                     i[t] + settings.CHECKPOINT_INTERVAL))
    /\ LoadRaises(t, "save_checkpoint")
    /\ UNCHANGED <<loadFrame, storage>>

\* the loop is over: await self.db.mark_checkpoint_completed(...), return
LoadMarkCompleted(t) ==
    /\ ppc[t] = "load_loop"
    /\ i[t] >= Len(normalized_data[t])
    /\ settings.CHECKPOINT_ENABLED
    /\ etl_checkpoints' = mark_checkpoint_completed(etl_checkpoints, src[t])
    /\ Issue(t, Call("mark_checkpoint_completed", TRUE, 0, 0))
    /\ LoadReturns(t)
    /\ UNCHANGED <<loadFrame, crypto_data, raw_tables, etl_runs, schema_drift_logs>>

LoadMarkCompletedFails(t) ==
    /\ ppc[t] = "load_loop"
    /\ i[t] >= Len(normalized_data[t])
    /\ settings.CHECKPOINT_ENABLED
    /\ Issue(t, Call("mark_checkpoint_completed", FALSE, 0, 0))
    /\ LoadRaises(t, "mark_checkpoint_completed")
    /\ UNCHANGED <<loadFrame, storage>>

\* the loop is over and checkpointing is off: return
LoadDone(t) ==
    /\ ppc[t] = "load_loop"
    /\ i[t] >= Len(normalized_data[t])
    /\ ~settings.CHECKPOINT_ENABLED
    /\ LoadReturns(t)
    /\ UNCHANGED <<loadFrame, storage, db_calls>>

\* LoadAll with the first record only handed to save_normalized_data
LoadAllOfFirst(t) ==
    /\ ppc[t] = "load_all"
    /\ crypto_data' = save_normalized_data(crypto_data,
                                           SubSeq(normalized_data[t], 1, 1))
    /\ Issue(t, Call("save_normalized_data", TRUE, 1, 0))
    /\ LoadReturns(t)
    /\ UNCHANGED <<loadFrame, raw_tables, etl_checkpoints, etl_runs,
                   schema_drift_logs>>

\* CSVPipeline.load: one save_normalized_data of the whole list, no checkpoint
LoadAll(t) ==
    /\ ppc[t] = "load_all"
    /\ crypto_data' = save_normalized_data(crypto_data, normalized_data[t])
    /\ Issue(t, Call("save_normalized_data", TRUE, Len(normalized_data[t]), 0))
    /\ LoadReturns(t)
    /\ UNCHANGED <<loadFrame, raw_tables, etl_checkpoints, etl_runs,
                   schema_drift_logs>>

LoadAllFails(t) ==
    /\ ppc[t] = "load_all"
    /\ \E j \in FailPoints(normalized_data[t]) :
          crypto_data' = save_normalized_data(crypto_data,
                                              SubSeq(normalized_data[t], 1, j))
    /\ Issue(t, Call("save_normalized_data", FALSE, Len(normalized_data[t]), 0))
    /\ LoadRaises(t, "save_normalized_data")
    /\ UNCHANGED <<loadFrame, raw_tables, etl_checkpoints, etl_runs,
                   schema_drift_logs>>

-----------------------------------------------------------------------------
(* BasePipeline.run() *)

\* the call of run() on the pipeline of `source`: start_time = datetime.now(),
\* then into extract()
BeginRun(t, source) ==
    /\ src' = [src EXCEPT ![t] = source]
    /\ start_time' = [start_time EXCEPT ![t] = now]
    /\ now' = now + 1
    /\ ppc' = [ppc EXCEPT ![t] =
                  CASE source = "coinpaprika" -> "extract_checkpoint"
                    [] source = "coingecko" -> "fetch"
                    [] OTHER -> "read_csv"]
    /\ raw_data' = [raw_data EXCEPT ![t] = <<>>]
    /\ normalized_data' = [normalized_data EXCEPT ![t] = <<>>]
    /\ retry_count' = [retry_count EXCEPT ![t] = 0]
    /\ waits' = [waits EXCEPT ![t] = <<>>]
    /\ i' = [i EXCEPT ![t] = 0]
    /\ total_loaded' = [total_loaded EXCEPT ![t] = 0]
    /\ exc' = [exc EXCEPT ![t] = "none"]
    /\ result' = [result EXCEPT ![t] = NoResult]
    /\ db_calls' = [db_calls EXCEPT ![t] = <<>>]

\* load() returned: end_time, log_run(status="success"), return the result
RunLogSuccess(t) ==
    /\ ppc[t] = "log_success"
    /\ etl_runs' = log_run(etl_runs, src[t], "success", Len(normalized_data[t]),
                           start_time[t], now, "none")
    /\ Issue(t, Call("log_run", TRUE, Len(normalized_data[t]), 0))
    /\ now' = now + 1
    /\ result' = [result EXCEPT ![t] =
                    [status |-> "success",
                     records_processed |-> Len(normalized_data[t]),
                     error |-> "none"]]
    /\ ppc' = [ppc EXCEPT ![t] = "returned"]
    /\ UNCHANGED <<crypto_data, raw_tables, etl_checkpoints, schema_drift_logs,
                   fixed, ncalls, src, start_time, raw_data, normalized_data,
                   extractLocals, loadLocals, exc, orchLocals>>

\* RunLogFailure with a return of the failed result in place of the raise
RunLogFailureReturns(t) ==
    /\ ppc[t] = "except"
    /\ etl_runs' = log_run(etl_runs, src[t], "failed", 0, start_time[t], now, exc[t])
    /\ Issue(t, Call("log_run", TRUE, 0, 0))
    /\ now' = now + 1
    /\ result' = [result EXCEPT ![t] =
                    [status |-> "failed", records_processed |-> 0,
                     error |-> exc[t]]]
    /\ ppc' = [ppc EXCEPT ![t] = "returned"]
    /\ ExtractLocalsGone(t)
    /\ UNCHANGED <<crypto_data, raw_tables, etl_checkpoints, schema_drift_logs,
                   fixed, ncalls, src, start_time, raw_data, normalized_data,
                   loadLocals, exc, orchLocals>>

\* except Exception as e: end_time, log_run(status="failed", records=0,
\* error=str(e)), raise.  (The log_run calls of run() are taken to return.)
RunLogFailure(t) ==
    /\ ppc[t] = "except"
    /\ etl_runs' = log_run(etl_runs, src[t], "failed", 0, start_time[t], now, exc[t])
    /\ Issue(t, Call("log_run", TRUE, 0, 0))
    /\ now' = now + 1
    /\ ppc' = [ppc EXCEPT ![t] = "raised"]
    /\ ExtractLocalsGone(t)
    /\ UNCHANGED <<crypto_data, raw_tables, etl_checkpoints, schema_drift_logs,
                   fixed, ncalls, src, start_time, raw_data, normalized_data,
                   loadLocals, exc, result, orchLocals>>

-----------------------------------------------------------------------------
(* ETLOrchestrator.run_full_etl *)

\* results = {}, total_records = 0, failed_sources = []
StartFull(t) ==
    /\ entry = "run_full_etl"
    /\ opc[t] = "idle"
    /\ ncalls < MaxRuns
    /\ ncalls' = ncalls + 1
    /\ opc' = [opc EXCEPT ![t] = "loop"]
    /\ idx' = [idx EXCEPT ![t] = 1]
    /\ results' = [results EXCEPT ![t] = [s \in Sources |-> NoResult]]
    /\ total_records' = [total_records EXCEPT ![t] = 0]
    /\ failed_sources' = [failed_sources EXCEPT ![t] = <<>>]
    /\ run_calls' = [run_calls EXCEPT ![t] = <<>>]
    /\ ended' = [ended EXCEPT ![t] = <<>>]
    /\ UNCHANGED <<storage, fixed, now, pipeLocals, summary>>

\* the next pipeline of self.pipelines.items(): result = await pipeline.run()
OrchCall(t) ==
    /\ opc[t] = "loop"
    /\ idx[t] <= Len(PipelineOrder)
    /\ BeginRun(t, PipelineOrder[idx[t]])
    /\ run_calls' = [run_calls EXCEPT ![t] = Append(@, PipelineOrder[idx[t]])]
    /\ opc' = [opc EXCEPT ![t] = "await"]
    /\ UNCHANGED <<storage, fixed, ncalls, idx, results, total_records,
                   failed_sources, summary, ended>>

\* OrchReturn with total_records assigned instead of added to
OrchReturnAssigns(t) ==
    /\ opc[t] = "await"
    /\ ppc[t] = "returned"
    /\ results' = [results EXCEPT ![t][src[t]] = result[t]]
    /\ total_records' = [total_records EXCEPT ![t] = result[t].records_processed]
    /\ idx' = [idx EXCEPT ![t] = @ + 1]
    /\ opc' = [opc EXCEPT ![t] = "loop"]
    /\ Ended(t)
    /\ UNCHANGED <<storage, environment, failed_sources, summary, run_calls>>

\* run() returned: results[source_name] = result, total_records += ...
OrchReturn(t) ==
    /\ opc[t] = "await"
    /\ ppc[t] = "returned"
    /\ results' = [results EXCEPT ![t][src[t]] = result[t]]
    /\ total_records' = [total_records EXCEPT ![t] = @ + result[t].records_processed]
    /\ idx' = [idx EXCEPT ![t] = @ + 1]
    /\ opc' = [opc EXCEPT ![t] = "loop"]
    /\ Ended(t)
    /\ UNCHANGED <<storage, environment, failed_sources, summary, run_calls>>

\* OrchCatch without the except clause: the exception leaves run_full_etl
OrchCatchReraises(t) ==
    /\ opc[t] = "await"
    /\ ppc[t] = "raised"
    /\ opc' = [opc EXCEPT ![t] = "raised"]
    /\ Ended(t)
    /\ UNCHANGED <<storage, environment, idx, results, total_records,
                   failed_sources, summary, run_calls>>

\* except Exception as e: a failed entry, failed_sources.append(source_name)
OrchCatch(t) ==
    /\ opc[t] = "await"
    /\ ppc[t] = "raised"
    /\ results' = [results EXCEPT ![t][src[t]] =
                     [status |-> "failed", records_processed |-> 0,
                      error |-> exc[t]]]
    /\ failed_sources' = [failed_sources EXCEPT ![t] = Append(@, src[t])]
    /\ idx' = [idx EXCEPT ![t] = @ + 1]
    /\ opc' = [opc EXCEPT ![t] = "loop"]
    /\ Ended(t)
    /\ UNCHANGED <<storage, environment, total_records, summary, run_calls>>

\* overall_status reporting "failed" as soon as one pipeline failed
overall_status_any(failed, pipelines) ==
    IF failed # <<>> THEN "failed" ELSE "success"

overall_status(failed, pipelines) ==
    IF Len(failed) = Len(pipelines) THEN "failed"
    ELSE IF failed = <<>> THEN "success" ELSE "partial_failure"

\* the loop is over: build the summary and return it
OrchSummary(t) ==
    /\ opc[t] = "loop"
    /\ idx[t] > Len(PipelineOrder)
    /\ summary' = [summary EXCEPT ![t] =
                     [status |-> overall_status(failed_sources[t], PipelineOrder),
                      total_records |-> total_records[t],
                      sources |-> results[t],
                      failed_sources |-> failed_sources[t]]]
    /\ opc' = [opc EXCEPT ![t] = "idle"]
    /\ UNCHANGED <<storage, environment, pipeLocals, idx, results, total_records,
                   failed_sources, run_calls, ended>>


(* run_single_source *)

\* run_single_source can be called: no call of it is in flight
SingleCallable(t) ==
    /\ entry = "run_single_source"
    /\ opc[t] \in {"idle", "returned", "raised", "raised_value_error"}
    /\ ppc[t] = "idle"
    /\ ncalls < MaxSingle

\* the argument of the call of run_single_source about to be made
SingleSource == target[ncalls + 1]

\* SingleUnknown with the failure written to the run log before the raise
SingleUnknownLogged(t) ==
    /\ SingleCallable(t)
    /\ SingleSource \notin Sources
    /\ ncalls' = ncalls + 1
    /\ etl_runs' = log_run(etl_runs, SingleSource, "failed", 0, now, now, "ValueError")
    /\ opc' = [opc EXCEPT ![t] = "raised_value_error"]
    /\ UNCHANGED <<crypto_data, raw_tables, etl_checkpoints, schema_drift_logs,
                   fixed, now, pipeLocals, idx, results, total_records,
                   failed_sources, summary, run_calls, ended>>

\* if source not in self.pipelines: raise ValueError
SingleUnknown(t) ==
    /\ SingleCallable(t)
    /\ SingleSource \notin Sources
    /\ ncalls' = ncalls + 1
    /\ opc' = [opc EXCEPT ![t] = "raised_value_error"]
    /\ UNCHANGED <<storage, fixed, now, pipeLocals, idx, results, total_records,
                   failed_sources, summary, run_calls, ended>>

\* start_time = datetime.now(); result = await self.pipelines[source].run():
\* the clock is read twice in a row, by the orchestrator and by run(), and is
\* taken not to move in between
SingleCall(t) ==
    /\ SingleCallable(t)
    /\ SingleSource \in Sources
    /\ ncalls' = ncalls + 1
    /\ BeginRun(t, SingleSource)
    /\ run_calls' = [run_calls EXCEPT ![t] = Append(@, SingleSource)]
    /\ opc' = [opc EXCEPT ![t] = "await"]
    /\ UNCHANGED <<storage, fixed, idx, results, total_records, failed_sources,
                   summary, ended>>

\* SingleReturn without the log_run call of the orchestrator
SingleReturnSilent(t) ==
    /\ entry = "run_single_source"
    /\ opc[t] = "await"
    /\ ppc[t] = "returned"
    /\ results' = [results EXCEPT ![t][src[t]] = result[t]]
    /\ opc' = [opc EXCEPT ![t] = "returned"]
    /\ Ended(t)
    /\ UNCHANGED <<storage, fixed, now, ncalls, idx, total_records, failed_sources,
                   summary, run_calls>>

\* run() returned: end_time, log_run(status="success",
\* records=result.get('records_processed', 0)), return result
SingleReturn(t) ==
    /\ entry = "run_single_source"
    /\ opc[t] = "await"
    /\ ppc[t] = "returned"
    /\ etl_runs' = log_run(etl_runs, src[t], "success", result[t].records_processed,
                           start_time[t], now, "none")
    /\ now' = now + 1
    /\ results' = [results EXCEPT ![t][src[t]] = result[t]]
    /\ opc' = [opc EXCEPT ![t] = "returned"]
    /\ Ended(t)
    /\ UNCHANGED <<crypto_data, raw_tables, etl_checkpoints, schema_drift_logs,
                   fixed, ncalls, idx, total_records, failed_sources, summary,
                   run_calls>>

\* except Exception as e: end_time, log_run(status="failed", records=0,
\* error=str(e)), raise
SingleCatch(t) ==
    /\ entry = "run_single_source"
    /\ opc[t] = "await"
    /\ ppc[t] = "raised"
    /\ etl_runs' = log_run(etl_runs, src[t], "failed", 0, start_time[t], now, exc[t])
    /\ now' = now + 1
    /\ opc' = [opc EXCEPT ![t] = "raised"]
    /\ Ended(t)
    /\ UNCHANGED <<crypto_data, raw_tables, etl_checkpoints, schema_drift_logs,
                   fixed, ncalls, idx, results, total_records, failed_sources,
                   summary, run_calls>>
-----------------------------------------------------------------------------
(* The driver: the caller of the public operations *)

\* what a source may serve: well-formed items, items with a renamed field and
\* items that are no mapping
ServedItems ==
    {Item("ok", "BTC"), Item("ok", "eth"), Item("renamed", "BTC"), Item("notdict", "")}

\* what a caller may hand to transform(): the same, the mapping with an
\* unknown key only and the mapping with a value of another type than declared
TransformItems == ServedItems \cup {Item("unknown", ""), Item("mistyped", "BTC")}

\* what the sources serve two pipelines that run at once
PairItems == {Item("ok", "BTC"), Item("renamed", "BTC"), Item("notdict", "")}

\* records a caller may hand to load(): one symbol at two instants, so that a
\* list can hold the same key twice
LoadRecords(source) ==
    {Normalized(source, "BTC", ts, Item("ok", "BTC")) : ts \in 1..2}

\* the settings the pipelines are run under: the backoff ones at their defaults
SettingsSet ==
    [CHECKPOINT_ENABLED : BOOLEAN, CHECKPOINT_INTERVAL : Intervals,
     SCHEMA_DRIFT_ENABLED : BOOLEAN,
     BACKOFF_BASE_DELAY : {BACKOFF_BASE_DELAY},
     BACKOFF_FACTOR : {BACKOFF_FACTOR},
     BACKOFF_MAX_DELAY : {BACKOFF_MAX_DELAY}]

\* the settings calculate_backoff is tried under
BackoffSettingsSet ==
    [CHECKPOINT_ENABLED : {TRUE}, CHECKPOINT_INTERVAL : {1},
     SCHEMA_DRIFT_ENABLED : {TRUE},
     BACKOFF_BASE_DELAY : BaseDelays,
     BACKOFF_FACTOR : Factors,
     BACKOFF_MAX_DELAY : MaxDelays]

InitStorage ==
    /\ crypto_data = <<>>
    /\ raw_tables = <<>>
    /\ etl_checkpoints = <<>>
    /\ etl_runs = <<>>
    /\ schema_drift_logs = <<>>

\* the checkpoints an earlier run of the pipeline of `source` may have left:
\* none, one of a first batch that was never completed (the run failed after
\* it), one that was completed
LeftCheckpoints(source) ==
    {<<>>,
     save_checkpoint(<<>>, source, 1, 1),
     mark_checkpoint_completed(save_checkpoint(<<>>, source, 1, 1), source)}

InitTasks(T) ==
    /\ ppc = [t \in T |-> "idle"]
    /\ src = [t \in T |-> "none"]
    /\ start_time = [t \in T |-> 0]
    /\ raw_data = [t \in T |-> <<>>]
    /\ normalized_data = [t \in T |-> <<>>]
    /\ retry_count = [t \in T |-> 0]
    /\ waits = [t \in T |-> <<>>]
    /\ i = [t \in T |-> 0]
    /\ total_loaded = [t \in T |-> 0]
    /\ exc = [t \in T |-> "none"]
    /\ result = [t \in T |-> NoResult]
    /\ db_calls = [t \in T |-> <<>>]
    /\ opc = [t \in T |-> "idle"]
    /\ idx = [t \in T |-> 1]
    /\ results = [t \in T |-> [s \in Sources |-> NoResult]]
    /\ total_records = [t \in T |-> 0]
    /\ failed_sources = [t \in T |-> <<>>]
    /\ summary = [t \in T |-> [status |-> "none", total_records |-> 0,
                               sources |-> [s \in Sources |-> NoResult],
                               failed_sources |-> <<>>]]
    /\ run_calls = [t \in T |-> <<>>]
    /\ ended = [t \in T |-> <<>>]

\* the driver calls run() on the pipeline under test
CallRun(t) ==
    /\ entry = "run"
    /\ ppc[t] = "idle"
    /\ ncalls < MaxRuns
    /\ ncalls' = ncalls + 1
    /\ BeginRun(t, target)
    /\ UNCHANGED <<storage, fixed, orchLocals>>

\* the caller runs the pipeline again once the run before has returned or
\* raised (the next POST /trigger-etl, or the operator's retry after a failure)
CallRunAgain(t) ==
    /\ entry = "rerun"
    /\ ppc[t] = "idle"
    /\ ncalls < MaxReruns
    /\ ncalls' = ncalls + 1
    /\ BeginRun(t, target)
    /\ UNCHANGED <<storage, fixed, orchLocals>>

\* the driver calls load(given) on the pipeline under test
CallLoad(t) ==
    /\ entry = "load"
    /\ ppc[t] = "idle"
    /\ ncalls < MaxCalls
    /\ ncalls' = ncalls + 1
    /\ src' = [src EXCEPT ![t] = target]
    /\ normalized_data' = [normalized_data EXCEPT ![t] = given]
    /\ ppc' = [ppc EXCEPT ![t] = "load"]
    /\ exc' = [exc EXCEPT ![t] = "none"]
    /\ db_calls' = [db_calls EXCEPT ![t] = <<>>]
    /\ UNCHANGED <<storage, fixed, now, start_time, raw_data, extractLocals,
                   loadLocals, result, orchLocals>>

\* the driver calls transform() on the pipeline under test, with the list its
\* patched extract() gave
CallTransform(t) ==
    /\ entry = "transform"
    /\ ppc[t] = "idle"
    /\ ncalls < MaxRuns
    /\ ncalls' = ncalls + 1
    /\ src' = [src EXCEPT ![t] = target]
    /\ raw_data' = [raw_data EXCEPT ![t] = upstream[target]]
    /\ ppc' = [ppc EXCEPT ![t] = "transform"]
    /\ exc' = [exc EXCEPT ![t] = "none"]
    /\ db_calls' = [db_calls EXCEPT ![t] = <<>>]
    /\ UNCHANGED <<storage, fixed, now, start_time, normalized_data, extractLocals,
                   loadLocals, result, orchLocals>>

\* the driver calls extract() on the pipeline under test
CallExtract(t) ==
    /\ entry = "extract"
    /\ ppc[t] = "idle"
    /\ ncalls < MaxRuns
    /\ ncalls' = ncalls + 1
    /\ src' = [src EXCEPT ![t] = target]
    /\ ppc' = [ppc EXCEPT ![t] =
                  CASE target = "coinpaprika" -> "extract_checkpoint"
                    [] target = "coingecko" -> "fetch"
                    [] OTHER -> "read_csv"]
    /\ exc' = [exc EXCEPT ![t] = "none"]
    /\ db_calls' = [db_calls EXCEPT ![t] = <<>>]
    /\ UNCHANGED <<storage, fixed, now, start_time, raw_data, normalized_data,
                   extractLocals, loadLocals, result, orchLocals>>

\* two callers on one event loop (two POST /trigger-etl requests in flight),
\* each awaiting run() on the pipeline of its own source
CallRunOfPair(t) ==
    /\ entry = "pair"
    /\ ppc[t] = "idle"
    /\ BeginRun(t, target[t])
    /\ UNCHANGED <<storage, fixed, ncalls, orchLocals>>

\* the driver has seen its call return or raise
DriverReturn(t) ==
    /\ entry \in {"load", "run", "transform", "extract", "rerun"}
    /\ Ended(t)
    /\ UNCHANGED <<storage, environment, opc, idx, results, total_records,
                   failed_sources, summary, run_calls>>

\* the driver awaits pipeline.calculate_backoff(0), (1), (2), ... in turn and
\* keeps the delays returned
CallBackoff(t) ==
    /\ entry = "backoff"
    /\ retry_count[t] <= MaxRetry
    /\ waits' = [waits EXCEPT ![t] = Append(@, calculate_backoff(retry_count[t]))]
    /\ retry_count' = [retry_count EXCEPT ![t] = @ + 1]
    /\ UNCHANGED <<storage, environment, ppc, src, start_time, raw_data,
                   normalized_data, loadLocals, exc, result, db_calls, orchLocals>>

\* the driver calls detect_schema_drift(sample) on the pipeline under test
CallDetect(t) ==
    /\ entry = "detect_schema_drift"
    /\ ppc[t] = "idle"
    /\ ncalls < MaxRuns
    /\ ncalls' = ncalls + 1
    /\ src' = [src EXCEPT ![t] = target]
    /\ ppc' = [ppc EXCEPT ![t] = "detect"]
    /\ exc' = [exc EXCEPT ![t] = "none"]
    /\ db_calls' = [db_calls EXCEPT ![t] = <<>>]
    /\ UNCHANGED <<storage, fixed, now, start_time, raw_data, normalized_data,
                   extractLocals, loadLocals, result, orchLocals>>

\* the three checkpoint operations of DatabaseService, called in any order by
\* a driver that keeps the list of its calls in run_calls and what
\* get_last_checkpoint returned last in result
CheckpointCall(op, source, marker, records) ==
    [op |-> op, source |-> source, marker |-> marker, records |-> records]

CheckpointFrame == <<crypto_data, raw_tables, etl_runs, schema_drift_logs, fixed, now,
                     ppc, src, start_time, raw_data, normalized_data, retry_count,
                     waits, i, total_loaded, exc, db_calls, opc, idx, results,
                     total_records, failed_sources, summary, ended>>

CallSaveCheckpoint(t, source, marker, records) ==
    /\ entry = "checkpoints"
    /\ ncalls < MaxOps
    /\ ncalls' = ncalls + 1
    /\ etl_checkpoints' = save_checkpoint(etl_checkpoints, source, marker, records)
    /\ run_calls' = [run_calls EXCEPT ![t] =
                       Append(@, CheckpointCall("save_checkpoint", source, marker, records))]
    /\ UNCHANGED <<CheckpointFrame, result>>

CallGetLastCheckpoint(t, source) ==
    /\ entry = "checkpoints"
    /\ ncalls < MaxOps
    /\ ncalls' = ncalls + 1
    /\ result' = [result EXCEPT ![t] = get_last_checkpoint(etl_checkpoints, source)]
    /\ run_calls' = [run_calls EXCEPT ![t] =
                       Append(@, CheckpointCall("get_last_checkpoint", source, 0, 0))]
    /\ UNCHANGED <<CheckpointFrame, etl_checkpoints>>

CallMarkCompleted(t, source) ==
    /\ entry = "checkpoints"
    /\ ncalls < MaxOps
    /\ ncalls' = ncalls + 1
    /\ etl_checkpoints' = mark_checkpoint_completed(etl_checkpoints, source)
    /\ run_calls' = [run_calls EXCEPT ![t] =
                       Append(@, CheckpointCall("mark_checkpoint_completed", source, 0, 0))]
    /\ UNCHANGED <<CheckpointFrame, result>>

\* the driver calls run() on the CSV pipeline, with no file at csv_path
CallRunCsv(t) ==
    /\ entry = "run_without_file"
    /\ ppc[t] = "idle"
    /\ ncalls < MaxRuns
    /\ ncalls' = ncalls + 1
    /\ BeginRun(t, target)
    /\ UNCHANGED <<storage, fixed, orchLocals>>
-----------------------------------------------------------------------------
(* Specifications *)

\* run_full_etl over the three pipelines, every source serving the same list
Init ==
    /\ InitStorage
    /\ InitTasks({1})
    /\ entry = "run_full_etl"
    /\ target = "none"
    /\ given = <<>>
    /\ \E served \in SeqsUpTo(ServedItems, MaxRecs) :
          upstream = [s \in Sources |-> served]
    /\ settings \in SettingsSet
    /\ now = 1
    /\ ncalls = 0

Next ==
    \/ \E t \in Tasks : StartFull(t)
    \/ \E t \in Tasks : OrchCall(t)
    \/ \E t \in Tasks : OrchReturn(t)
    \/ \E t \in Tasks : OrchCatch(t)
    \/ \E t \in Tasks : OrchSummary(t)
    \/ \E t \in Tasks : ExtractCheckpoint(t)
    \/ \E t \in Tasks : ExtractCheckpointFails(t)
    \/ \E t \in Tasks : Fetch200(t)
    \/ \E t \in Tasks : Fetch429(t)
    \/ \E t \in Tasks : FetchClientError(t)
    \/ \E t \in Tasks : FetchClientErrorLast(t)
    \/ \E t \in Tasks : FetchOtherError(t)
    \/ \E t \in Tasks : FetchExhausted(t)
    \/ \E t \in Tasks : ReadCsv(t)
    \/ \E t \in Tasks : ReadCsvFails(t)
    \/ \E t \in Tasks : TransformNotMapping(t)
    \/ \E t \in Tasks : TransformLogDrift(t)
    \/ \E t \in Tasks : TransformLogDriftFails(t)
    \/ \E t \in Tasks : TransformRecords(t)
    \/ \E t \in Tasks : TransformHandlerRaises(t)
    \/ \E t \in Tasks : LoadSaveRaw(t)
    \/ \E t \in Tasks : LoadSaveRawFails(t)
    \/ \E t \in Tasks : LoadBatch(t)
    \/ \E t \in Tasks : LoadBatchFails(t)
    \/ \E t \in Tasks : LoadCheckpoint(t)
    \/ \E t \in Tasks : LoadCheckpointFails(t)
    \/ \E t \in Tasks : LoadMarkCompleted(t)
    \/ \E t \in Tasks : LoadMarkCompletedFails(t)
    \/ \E t \in Tasks : LoadDone(t)
    \/ \E t \in Tasks : LoadAll(t)
    \/ \E t \in Tasks : LoadAllFails(t)
    \/ \E t \in Tasks : RunLogSuccess(t)
    \/ \E t \in Tasks : RunLogFailure(t)

Spec == Init /\ [][Next]_vars

\* run() of one pipeline, called again and again
InitRun ==
    /\ InitStorage
    /\ InitTasks({1})
    /\ entry = "run"
    /\ target \in Sources
    /\ given = <<>>
    /\ \E served \in SeqsUpTo(ServedItems, MaxRecs) :
          upstream = [s \in Sources |-> IF s = target THEN served ELSE <<>>]
    /\ settings \in SettingsSet
    /\ now = 1
    /\ ncalls = 0

NextRun ==
    \/ \E t \in Tasks : CallRun(t)
    \/ \E t \in Tasks : ExtractCheckpoint(t)
    \/ \E t \in Tasks : ExtractCheckpointFails(t)
    \/ \E t \in Tasks : Fetch200(t)
    \/ \E t \in Tasks : Fetch429(t)
    \/ \E t \in Tasks : FetchClientError(t)
    \/ \E t \in Tasks : FetchClientErrorLast(t)
    \/ \E t \in Tasks : FetchOtherError(t)
    \/ \E t \in Tasks : FetchExhausted(t)
    \/ \E t \in Tasks : ReadCsv(t)
    \/ \E t \in Tasks : ReadCsvFails(t)
    \/ \E t \in Tasks : TransformNotMapping(t)
    \/ \E t \in Tasks : TransformLogDrift(t)
    \/ \E t \in Tasks : TransformLogDriftFails(t)
    \/ \E t \in Tasks : TransformRecords(t)
    \/ \E t \in Tasks : TransformHandlerRaises(t)
    \/ \E t \in Tasks : LoadSaveRaw(t)
    \/ \E t \in Tasks : LoadSaveRawFails(t)
    \/ \E t \in Tasks : LoadBatch(t)
    \/ \E t \in Tasks : LoadBatchFails(t)
    \/ \E t \in Tasks : LoadCheckpoint(t)
    \/ \E t \in Tasks : LoadCheckpointFails(t)
    \/ \E t \in Tasks : LoadMarkCompleted(t)
    \/ \E t \in Tasks : LoadMarkCompletedFails(t)
    \/ \E t \in Tasks : LoadDone(t)
    \/ \E t \in Tasks : LoadAll(t)
    \/ \E t \in Tasks : LoadAllFails(t)
    \/ \E t \in Tasks : RunLogSuccess(t)
    \/ \E t \in Tasks : RunLogFailure(t)
    \/ \E t \in Tasks : DriverReturn(t)

SpecRun == InitRun /\ [][NextRun]_vars

\* extract() of one pipeline, called again and again, on the checkpoints an
\* earlier run of the pipeline has left
InitExtract ==
    /\ InitTasks({1})
    /\ entry = "extract"
    /\ target \in Sources
    /\ crypto_data = <<>>
    /\ raw_tables = <<>>
    /\ etl_checkpoints \in LeftCheckpoints(target)
    /\ etl_runs = <<>>
    /\ schema_drift_logs = <<>>
    /\ given = <<>>
    /\ \E served \in SeqsUpTo(ServedItems, MaxRecs) :
          upstream = [s \in Sources |-> IF s = target THEN served ELSE <<>>]
    /\ settings \in {c \in SettingsSet :
                        /\ c.CHECKPOINT_ENABLED
                        /\ c.CHECKPOINT_INTERVAL = 1
                        /\ c.SCHEMA_DRIFT_ENABLED}
    /\ now = 1
    /\ ncalls = 0

NextExtract ==
    \/ \E t \in Tasks : CallExtract(t)
    \/ \E t \in Tasks : ExtractCheckpoint(t)
    \/ \E t \in Tasks : ExtractCheckpointFails(t)
    \/ \E t \in Tasks : Fetch200(t)
    \/ \E t \in Tasks : Fetch429(t)
    \/ \E t \in Tasks : FetchClientError(t)
    \/ \E t \in Tasks : FetchClientErrorLast(t)
    \/ \E t \in Tasks : FetchOtherError(t)
    \/ \E t \in Tasks : FetchExhausted(t)
    \/ \E t \in Tasks : ReadCsv(t)
    \/ \E t \in Tasks : ReadCsvFails(t)
    \/ \E t \in Tasks : DriverReturn(t)

SpecExtract == InitExtract /\ [][NextExtract]_vars

\* the same, on an event loop that goes on running a coroutine that can run:
\* every awaited request and sleep comes back
SpecExtractFair == SpecExtract /\ WF_vars(NextExtract)

\* load() of one pipeline, called again and again with the same list
InitLoad ==
    /\ InitStorage
    /\ InitTasks({1})
    /\ entry = "load"
    /\ target \in Sources
    /\ given \in SeqsUpTo(LoadRecords(target), MaxRecs)
    /\ upstream = [s \in Sources |-> <<>>]
    /\ settings \in {c \in SettingsSet : c.SCHEMA_DRIFT_ENABLED}
    /\ now = 1
    /\ ncalls = 0

NextLoad ==
    \/ \E t \in Tasks : CallLoad(t)
    \/ \E t \in Tasks : LoadSaveRaw(t)
    \/ \E t \in Tasks : LoadSaveRawFails(t)
    \/ \E t \in Tasks : LoadBatch(t)
    \/ \E t \in Tasks : LoadBatchFails(t)
    \/ \E t \in Tasks : LoadCheckpoint(t)
    \/ \E t \in Tasks : LoadCheckpointFails(t)
    \/ \E t \in Tasks : LoadMarkCompleted(t)
    \/ \E t \in Tasks : LoadMarkCompletedFails(t)
    \/ \E t \in Tasks : LoadDone(t)
    \/ \E t \in Tasks : LoadAll(t)
    \/ \E t \in Tasks : LoadAllFails(t)
    \/ \E t \in Tasks : DriverReturn(t)

SpecLoad == InitLoad /\ [][NextLoad]_vars

\* calculate_backoff called with growing retry counts, under each configuration
InitBackoff ==
    /\ InitStorage
    /\ InitTasks({1})
    /\ entry = "backoff"
    /\ target = "coinpaprika"
    /\ given = <<>>
    /\ upstream = [s \in Sources |-> <<>>]
    /\ settings \in BackoffSettingsSet
    /\ now = 1
    /\ ncalls = 0

NextBackoff ==
    \/ \E t \in Tasks : CallBackoff(t)

SpecBackoff == InitBackoff /\ [][NextBackoff]_vars

\* transform() of one pipeline, called on a list of raw items
InitTransform ==
    /\ InitStorage
    /\ InitTasks({1})
    /\ entry = "transform"
    /\ target \in Sources
    /\ given = <<>>
    /\ \E raw \in SeqsUpTo(TransformItems, MaxRecs) :
          upstream = [s \in Sources |-> IF s = target THEN raw ELSE <<>>]
    /\ settings \in {c \in SettingsSet :
                        c.CHECKPOINT_ENABLED /\ c.CHECKPOINT_INTERVAL = 1}
    /\ now = 1
    /\ ncalls = 0

NextTransform ==
    \/ \E t \in Tasks : CallTransform(t)
    \/ \E t \in Tasks : TransformNotMapping(t)
    \/ \E t \in Tasks : TransformLogDrift(t)
    \/ \E t \in Tasks : TransformLogDriftFails(t)
    \/ \E t \in Tasks : TransformRecords(t)
    \/ \E t \in Tasks : TransformHandlerRaises(t)
    \/ \E t \in Tasks : DriverReturn(t)

SpecTransform == InitTransform /\ [][NextTransform]_vars

\* run() of two pipelines of different sources at once, on one event loop and
\* one storage: their steps interleave at every await.  The sources serve the
\* same list and answer at the first attempt; the behaviour ends with both
\* calls over.
InitPair ==
    /\ InitStorage
    /\ InitTasks({1, 2})
    /\ entry = "pair"
    /\ \E a, b \in 1..Len(PipelineOrder) :
          a < b /\ target = <<PipelineOrder[a], PipelineOrder[b]>>
    /\ given = <<>>
    /\ \E served \in SeqsUpTo(PairItems, MaxRecs) :
          upstream = [s \in Sources |-> served]
    /\ settings \in {c \in SettingsSet :
                        c.SCHEMA_DRIFT_ENABLED /\ c.CHECKPOINT_INTERVAL = 1}
    /\ now = 1
    /\ ncalls = 0

NextPair ==
    \/ \E t \in Tasks : CallRunOfPair(t)
    \/ \E t \in Tasks : ExtractCheckpoint(t)
    \/ \E t \in Tasks : Fetch200(t)
    \/ \E t \in Tasks : ReadCsv(t)
    \/ \E t \in Tasks : TransformNotMapping(t)
    \/ \E t \in Tasks : TransformLogDrift(t)
    \/ \E t \in Tasks : TransformLogDriftFails(t)
    \/ \E t \in Tasks : TransformRecords(t)
    \/ \E t \in Tasks : TransformHandlerRaises(t)
    \/ \E t \in Tasks : LoadSaveRaw(t)
    \/ \E t \in Tasks : LoadSaveRawFails(t)
    \/ \E t \in Tasks : LoadBatch(t)
    \/ \E t \in Tasks : LoadBatchFails(t)
    \/ \E t \in Tasks : LoadCheckpoint(t)
    \/ \E t \in Tasks : LoadCheckpointFails(t)
    \/ \E t \in Tasks : LoadMarkCompleted(t)
    \/ \E t \in Tasks : LoadMarkCompletedFails(t)
    \/ \E t \in Tasks : LoadDone(t)
    \/ \E t \in Tasks : LoadAll(t)
    \/ \E t \in Tasks : LoadAllFails(t)
    \/ \E t \in Tasks : RunLogSuccess(t)
    \/ \E t \in Tasks : RunLogFailure(t)

SpecPair == InitPair /\ [][NextPair]_vars

\* detect_schema_drift() called on one sample: the expected keys, the keys of
\* the sample, the keys with a value of another type and the similarity of
\* every missing key to every extra key are the inputs; the behaviour ends
\* with the call over
InitDrift ==
    /\ InitStorage
    /\ InitTasks({1})
    /\ entry = "detect_schema_drift"
    /\ target = "coinpaprika"
    /\ \E e \in SUBSET ExpectedKeys, o \in SUBSET ObservedKeys :
          \E sc \in [ScoredPairs -> Scores], mt \in SUBSET ({"a"} \cap e \cap o) :
                given = [expected |-> e, actual |-> o, mistyped |-> mt,
                         score |-> [p \in ExpectedKeys \X ObservedKeys |->
                                       IF p \in ScoredPairs THEN sc[p] ELSE 0]]
    /\ upstream = [s \in Sources |-> <<>>]
    /\ settings \in {c \in SettingsSet :
                        /\ c.CHECKPOINT_ENABLED /\ c.CHECKPOINT_INTERVAL = 1
                        /\ c.SCHEMA_DRIFT_ENABLED}
    /\ now = 1
    /\ ncalls = 0

NextDrift ==
    \/ \E t \in Tasks : CallDetect(t)
    \/ \E t \in Tasks : DetectSilent(t)
    \/ \E t \in Tasks : DetectLogDrift(t)
    \/ \E t \in Tasks : DetectLogDriftFails(t)

SpecDrift == InitDrift /\ [][NextDrift]_vars

\* run_single_source called a few times in a row, with the registered
\* sources or unregistered names of target as arguments, each call on the
\* storage the calls before left
SingleItems == {Item("ok", "BTC"), Item("renamed", "BTC"), Item("notdict", "")}
SingleNames == Sources \cup {"binance"}

InitSingle ==
    /\ InitStorage
    /\ InitTasks({1})
    /\ entry = "run_single_source"
    /\ target \in [1..MaxSingle -> SingleNames]
    /\ given = <<>>
    /\ \E served \in SeqsUpTo(SingleItems, 1) :
          upstream = [s \in Sources |-> served]
    /\ settings \in {c \in SettingsSet : c.CHECKPOINT_INTERVAL = 1}
    /\ now = 1
    /\ ncalls = 0

NextSingle ==
    \/ \E t \in Tasks : SingleUnknown(t)
    \/ \E t \in Tasks : SingleCall(t)
    \/ \E t \in Tasks : ExtractCheckpoint(t)
    \/ \E t \in Tasks : ExtractCheckpointFails(t)
    \/ \E t \in Tasks : Fetch200(t)
    \/ \E t \in Tasks : Fetch429(t)
    \/ \E t \in Tasks : FetchClientError(t)
    \/ \E t \in Tasks : FetchClientErrorLast(t)
    \/ \E t \in Tasks : FetchOtherError(t)
    \/ \E t \in Tasks : FetchExhausted(t)
    \/ \E t \in Tasks : ReadCsv(t)
    \/ \E t \in Tasks : ReadCsvFails(t)
    \/ \E t \in Tasks : TransformNotMapping(t)
    \/ \E t \in Tasks : TransformLogDrift(t)
    \/ \E t \in Tasks : TransformLogDriftFails(t)
    \/ \E t \in Tasks : TransformRecords(t)
    \/ \E t \in Tasks : TransformHandlerRaises(t)
    \/ \E t \in Tasks : LoadSaveRaw(t)
    \/ \E t \in Tasks : LoadSaveRawFails(t)
    \/ \E t \in Tasks : LoadBatch(t)
    \/ \E t \in Tasks : LoadBatchFails(t)
    \/ \E t \in Tasks : LoadCheckpoint(t)
    \/ \E t \in Tasks : LoadCheckpointFails(t)
    \/ \E t \in Tasks : LoadMarkCompleted(t)
    \/ \E t \in Tasks : LoadMarkCompletedFails(t)
    \/ \E t \in Tasks : LoadDone(t)
    \/ \E t \in Tasks : LoadAll(t)
    \/ \E t \in Tasks : LoadAllFails(t)
    \/ \E t \in Tasks : RunLogSuccess(t)
    \/ \E t \in Tasks : RunLogFailure(t)
    \/ \E t \in Tasks : SingleReturn(t)
    \/ \E t \in Tasks : SingleCatch(t)

SpecSingle == InitSingle /\ [][NextSingle]_vars

\* save_checkpoint, get_last_checkpoint and mark_checkpoint_completed called
\* in any order on an empty table
InitCheckpoints ==
    /\ InitStorage
    /\ InitTasks({1})
    /\ entry = "checkpoints"
    /\ target = "none"
    /\ given = <<>>
    /\ upstream = [s \in Sources |-> <<>>]
    /\ settings \in {c \in SettingsSet :
                        /\ c.CHECKPOINT_ENABLED /\ c.CHECKPOINT_INTERVAL = 1
                        /\ c.SCHEMA_DRIFT_ENABLED}
    /\ now = 1
    /\ ncalls = 0

NextCheckpoints ==
    \/ \E t \in Tasks : \E s \in CheckpointSources, m \in Markers, n \in Counts :
          CallSaveCheckpoint(t, s, m, n)
    \/ \E t \in Tasks : \E s \in CheckpointSources : CallGetLastCheckpoint(t, s)
    \/ \E t \in Tasks : \E s \in CheckpointSources : CallMarkCompleted(t, s)

SpecCheckpoints == InitCheckpoints /\ [][NextCheckpoints]_vars

\* run() of the CSV pipeline on a file of well-formed rows, or with no file at
\* csv_path; the behaviour ends with the call over
CsvRows == {Item("ok", "BTC"), Item("ok", "eth")}

InitCsv ==
    /\ InitStorage
    /\ InitTasks({1})
    /\ entry \in {"run", "run_without_file"}
    /\ target = "csv"
    /\ given = <<>>
    /\ \E rows \in SeqsUpTo(CsvRows, MaxRecs) :
          upstream = [s \in Sources |->
                        IF s = target /\ entry = "run" THEN rows ELSE <<>>]
    /\ settings \in SettingsSet
    /\ now = 1
    /\ ncalls = 0

NextCsv ==
    \/ \E t \in Tasks : CallRun(t)
    \/ \E t \in Tasks : CallRunCsv(t)
    \/ \E t \in Tasks : ReadCsv(t)
    \/ \E t \in Tasks : CreateSampleCsv(t)
    \/ \E t \in Tasks : ReadCsvFails(t)
    \/ \E t \in Tasks : TransformRecords(t)
    \/ \E t \in Tasks : LoadSaveRaw(t)
    \/ \E t \in Tasks : LoadSaveRawFails(t)
    \/ \E t \in Tasks : LoadAll(t)
    \/ \E t \in Tasks : LoadAllFails(t)
    \/ \E t \in Tasks : RunLogSuccess(t)
    \/ \E t \in Tasks : RunLogFailure(t)

SpecCsv == InitCsv /\ [][NextCsv]_vars

\* load() of a batching pipeline, called once on a list of up to MaxBatchRecs
\* records of different keys, under every checkpoint interval of BatchIntervals
BatchRecords(source) ==
    {Normalized(source, "BTC", ts, Item("ok", "BTC")) : ts \in 1..MaxBatchRecs}

BatchSettingsSet ==
    [CHECKPOINT_ENABLED : BOOLEAN, CHECKPOINT_INTERVAL : BatchIntervals,
     SCHEMA_DRIFT_ENABLED : {TRUE},
     BACKOFF_BASE_DELAY : {BACKOFF_BASE_DELAY},
     BACKOFF_FACTOR : {BACKOFF_FACTOR},
     BACKOFF_MAX_DELAY : {BACKOFF_MAX_DELAY}]

InitBatch ==
    /\ InitStorage
    /\ InitTasks({1})
    /\ entry = "load"
    /\ target \in BatchingSources
    /\ given \in SeqsUpTo(BatchRecords(target), MaxBatchRecs)
    /\ upstream = [s \in Sources |-> <<>>]
    /\ settings \in BatchSettingsSet
    /\ now = 1
    /\ ncalls = MaxCalls - 1

NextBatch ==
    \/ \E t \in Tasks : CallLoad(t)
    \/ \E t \in Tasks : LoadSaveRaw(t)
    \/ \E t \in Tasks : LoadSaveRawFails(t)
    \/ \E t \in Tasks : LoadBatch(t)
    \/ \E t \in Tasks : LoadBatchFails(t)
    \/ \E t \in Tasks : LoadCheckpoint(t)
    \/ \E t \in Tasks : LoadCheckpointFails(t)
    \/ \E t \in Tasks : LoadMarkCompleted(t)
    \/ \E t \in Tasks : LoadMarkCompletedFails(t)
    \/ \E t \in Tasks : LoadDone(t)

SpecBatch == InitBatch /\ [][NextBatch]_vars

\* two run() calls of the pipeline of one batching source in flight on one
\* storage (two POST /trigger-etl requests, or one beside the startup run):
\* their steps interleave at every await.  The source serves the same list to
\* both and answers at the first attempt.
InitSame ==
    /\ InitStorage
    /\ InitTasks({1, 2})
    /\ entry = "pair"
    /\ \E s \in BatchingSources : target = <<s, s>>
    /\ given = <<>>
    /\ \E served \in SeqsUpTo(PairItems, MaxRecs) :
          upstream = [s \in Sources |-> served]
    /\ settings \in {c \in SettingsSet :
                        c.SCHEMA_DRIFT_ENABLED /\ c.CHECKPOINT_INTERVAL = 1}
    /\ now = 1
    /\ ncalls = 0

NextSame ==
    \/ \E t \in Tasks : CallRunOfPair(t)
    \/ \E t \in Tasks : ExtractCheckpoint(t)
    \/ \E t \in Tasks : Fetch200(t)
    \/ \E t \in Tasks : TransformNotMapping(t)
    \/ \E t \in Tasks : TransformLogDrift(t)
    \/ \E t \in Tasks : TransformLogDriftFails(t)
    \/ \E t \in Tasks : TransformRecords(t)
    \/ \E t \in Tasks : TransformHandlerRaises(t)
    \/ \E t \in Tasks : LoadSaveRaw(t)
    \/ \E t \in Tasks : LoadSaveRawFails(t)
    \/ \E t \in Tasks : LoadBatch(t)
    \/ \E t \in Tasks : LoadBatchFails(t)
    \/ \E t \in Tasks : LoadCheckpoint(t)
    \/ \E t \in Tasks : LoadCheckpointFails(t)
    \/ \E t \in Tasks : LoadMarkCompleted(t)
    \/ \E t \in Tasks : LoadMarkCompletedFails(t)
    \/ \E t \in Tasks : LoadDone(t)
    \/ \E t \in Tasks : RunLogSuccess(t)
    \/ \E t \in Tasks : RunLogFailure(t)

SpecSame == InitSame /\ [][NextSame]_vars

\* run() of one pipeline called MaxReruns times in a row on a source whose data
\* do not change between the runs and which answers at the first attempt, with
\* its list or with an empty one; every storage call of load() may fail
RerunItems == {Item("ok", "BTC"), Item("ok", "eth")}

InitRerun ==
    /\ InitStorage
    /\ InitTasks({1})
    /\ entry = "rerun"
    /\ target \in Sources
    /\ given = <<>>
    /\ \E served \in SeqsUpTo(RerunItems, MaxRecs) :
          upstream = [s \in Sources |-> IF s = target THEN served ELSE <<>>]
    /\ settings \in {c \in SettingsSet : ~c.SCHEMA_DRIFT_ENABLED}
    /\ now = 1
    /\ ncalls = 0

NextRerun ==
    \/ \E t \in Tasks : CallRunAgain(t)
    \/ \E t \in Tasks : ExtractCheckpoint(t)
    \/ \E t \in Tasks : Fetch200(t)
    \/ \E t \in Tasks : Fetch200Empty(t)
    \/ \E t \in Tasks : ReadCsv(t)
    \/ \E t \in Tasks : TransformRecords(t)
    \/ \E t \in Tasks : LoadSaveRaw(t)
    \/ \E t \in Tasks : LoadSaveRawFails(t)
    \/ \E t \in Tasks : LoadBatch(t)
    \/ \E t \in Tasks : LoadBatchFails(t)
    \/ \E t \in Tasks : LoadCheckpoint(t)
    \/ \E t \in Tasks : LoadCheckpointFails(t)
    \/ \E t \in Tasks : LoadMarkCompleted(t)
    \/ \E t \in Tasks : LoadMarkCompletedFails(t)
    \/ \E t \in Tasks : LoadDone(t)
    \/ \E t \in Tasks : LoadAll(t)
    \/ \E t \in Tasks : LoadAllFails(t)
    \/ \E t \in Tasks : RunLogSuccess(t)
    \/ \E t \in Tasks : RunLogFailure(t)
    \/ \E t \in Tasks : DriverReturn(t)

SpecRerun == InitRerun /\ [][NextRerun]_vars
-----------------------------------------------------------------------------
(* Properties of run_full_etl, under Spec *)

\* is s a prefix of r
IsPrefix(s, r) == Len(s) <= Len(r) /\ \A k \in 1..Len(s) : s[k] = r[k]

\* run_full_etl of task t has returned its summary
Summarised(t) == opc[t] = "idle" /\ Len(ended[t]) = Len(PipelineOrder)

\* the pipeline calls of task t that raised, and those that returned
RaisedCalls(t) == {k \in 1..Len(ended[t]) : ended[t][k].outcome = "raised"}
ReturnedCalls(t) == {k \in 1..Len(ended[t]) : ended[t][k].outcome = "returned"}

RECURSIVE SumReturned(_)
SumReturned(calls) ==
    IF calls = <<>> THEN 0
    ELSE (IF Head(calls).outcome = "returned"
          THEN Head(calls).records_processed ELSE 0) + SumReturned(Tail(calls))

\* C1: run_full_etl calls run() of every registered pipeline exactly once, in
\* registration order, whichever of them raise: the calls made so far are
\* always a prefix of the registered pipelines (none twice, none skipped), a
\* call that raised is recorded as failed under its source and the loop goes
\* on, the orchestrator itself never raises, and when the summary is returned
\* all the pipelines have been called.
C1_EveryPipelineRunOnce ==
    \A t \in Tasks :
        /\ opc[t] \in {"idle", "loop", "await"}
        /\ IsPrefix(run_calls[t], PipelineOrder)
        /\ Len(ended[t]) <= Len(run_calls[t])
        /\ Len(run_calls[t]) <= Len(ended[t]) + 1
        /\ \A k \in 1..Len(ended[t]) : ended[t][k].source = run_calls[t][k]
        /\ \A k \in RaisedCalls(t) :
              /\ results[t][ended[t][k].source].status = "failed"
              /\ results[t][ended[t][k].source].error # "none"
        /\ Summarised(t) =>
              /\ run_calls[t] = PipelineOrder
              /\ summary[t].status \in {"success", "partial_failure", "failed"}
              /\ summary[t].sources = results[t]

\* the first pipeline raised, the last one was still run and returned, and the
\* summary is out
C1_Witness ==
    \E t \in Tasks :
        /\ Summarised(t)
        /\ ended[t][1].outcome = "raised"
        /\ ended[t][2].outcome = "raised"
        /\ ended[t][3].outcome = "returned"
        /\ ended[t][3].records_processed > 0

\* C2: the overall status of the summary is "success" exactly when no
\* pipeline's run() raised, "failed" exactly when every registered pipeline's
\* run() raised, and "partial_failure" exactly when some but not all did.
C2_OverallStatus ==
    \A t \in Tasks :
        Summarised(t) =>
            LET f == Cardinality(RaisedCalls(t))
                n == Len(PipelineOrder)
            IN  /\ (summary[t].status = "success") <=> (f = 0)
                /\ (summary[t].status = "failed") <=> (f = n)
                /\ (summary[t].status = "partial_failure") <=> (0 < f /\ f < n)

\* two of the three pipelines raised: partial_failure
C2_Witness ==
    \E t \in Tasks :
        /\ Summarised(t)
        /\ Cardinality(RaisedCalls(t)) = 2
        /\ summary[t].status = "partial_failure"

\* C3: in the summary, total_records is the sum of records_processed over the
\* runs that returned normally, failed_sources lists exactly the sources whose
\* run() raised (each once), and each of them has an entry with status failed
\* and zero records in the per-source map.
C3_SummaryTotals ==
    \A t \in Tasks :
        Summarised(t) =>
            /\ summary[t].total_records = SumReturned(ended[t])
            /\ Range(summary[t].failed_sources) =
                  {ended[t][k].source : k \in RaisedCalls(t)}
            /\ Len(summary[t].failed_sources) = Cardinality(RaisedCalls(t))
            /\ \A s \in Range(summary[t].failed_sources) :
                  /\ summary[t].sources[s].status = "failed"
                  /\ summary[t].sources[s].records_processed = 0
            /\ \A k \in ReturnedCalls(t) :
                  summary[t].sources[ended[t][k].source].records_processed
                      = ended[t][k].records_processed

\* one run raised and two returned records, which the total adds up
C3_Witness ==
    \E t \in Tasks :
        /\ Summarised(t)
        /\ ended[t][1].outcome = "returned"
        /\ ended[t][1].records_processed = 1
        /\ ended[t][2].outcome = "returned"
        /\ ended[t][2].records_processed = 2
        /\ ended[t][3].outcome = "raised"
        /\ summary[t].total_records = 3
        /\ summary[t].failed_sources = <<"csv">>

-----------------------------------------------------------------------------
(* Properties of run(), under SpecRun *)

\* the positions of the calls of `op` in a recorded call sequence
CallsOf(calls, op) == {k \in 1..Len(calls) : calls[k].op = op}
OkCallsOf(calls, op) == {k \in CallsOf(calls, op) : calls[k].ok}
FailedCallsOf(calls, op) == {k \in CallsOf(calls, op) : ~calls[k].ok}

\* records handed to the save_normalized_data calls that succeeded among the
\* first m calls
RECURSIVE Written(_, _)
Written(calls, m) ==
    IF m = 0 THEN 0
    ELSE (IF calls[m].op = "save_normalized_data" /\ calls[m].ok
          THEN calls[m].n ELSE 0) + Written(calls, m - 1)

\* C4: every call of run() has called log_run by the time it returns or
\* raises, whatever the outcome: success with records, success with an empty
\* extraction, or a failure in any stage.
C4_EveryRunIsLogged ==
    \A t \in Tasks :
        ppc[t] \in {"returned", "raised"} => CallsOf(db_calls[t], "log_run") # {}

C8_ResumePointWithCheckpointing ==
    \A t \in Tasks :
        \A f \in FailedCallsOf(db_calls[t], "save_normalized_data") :
            /\ ppc[t] \in {"except", "raised"}
            /\ exc[t] = "save_normalized_data"
            /\ \A g \in (f + 1)..Len(db_calls[t]) : db_calls[t][g].op = "log_run"
            /\ CallsOf(db_calls[t], "mark_checkpoint_completed") = {}
            /\ FailedCallsOf(db_calls[t], "save_checkpoint") = {}
            /\ Cardinality(OkCallsOf(db_calls[t], "save_checkpoint")) =
                  IF settings.CHECKPOINT_ENABLED
                  THEN Cardinality(OkCallsOf(db_calls[t], "save_normalized_data"))
                  ELSE 0
            /\ (settings.CHECKPOINT_ENABLED /\ Written(db_calls[t], f) > 0) =>
                  LET last == get_last_checkpoint(etl_checkpoints, src[t])
                  IN  /\ last.found
                      /\ last.records_processed = Written(db_calls[t], f)
                      /\ etl_checkpoints[Len(etl_checkpoints)].source = src[t]
                      /\ ~etl_checkpoints[Len(etl_checkpoints)].completed

\* the second batch failed with checkpointing enabled, run() has raised, and
\* the checkpoint of the first batch is the resumable point
C8_Witness ==
    \E t \in Tasks :
        /\ ppc[t] = "raised"
        /\ settings.CHECKPOINT_ENABLED
        /\ FailedCallsOf(db_calls[t], "save_normalized_data") # {}
        /\ Cardinality(OkCallsOf(db_calls[t], "save_normalized_data")) = 1
        /\ get_last_checkpoint(etl_checkpoints, src[t]).records_processed = 1


\* C36: the records count of the run-log row a run() writes is the number of
\* normalized records the run handed to storage in calls that succeeded; a run
\* logged as failed with zero records has left no row in crypto_data.
C36_LoggedCountIsWrittenCount ==
    \A t \in Tasks :
        (entry = "run" /\ ppc[t] \in {"returned", "raised"} /\ etl_runs # <<>>) =>
            LET row == etl_runs[Len(etl_runs)]
            IN  /\ row.records_processed = Written(db_calls[t], Len(db_calls[t]))
                /\ (row.status = "failed" /\ row.records_processed = 0) =>
                      crypto_data = <<>>
-----------------------------------------------------------------------------
(* Properties of load(), under SpecLoad *)

\* the rows of crypto_data with the key of `record`
KeyRows(record) == {k \in 1..Len(crypto_data) : SameKey(crypto_data[k], record)}

\* the rows of etl_checkpoints of a source
CheckpointRows(source) ==
    {k \in 1..Len(etl_checkpoints) : etl_checkpoints[k].source = source}

\* load() of task t has returned normally
LoadReturned(t) == entry = "load" /\ ppc[t] = "returned"

\* C6: after any sequence of loads no two rows of crypto_data share a
\* (source, symbol, last_updated) key; once load() has returned twice for the
\* same list, every record of the list has exactly one row with its key; and
\* load() raises only when a storage call failed, never because a row with the
\* key was there already.
C6_IdempotentLoad ==
    /\ \A a, b \in 1..Len(crypto_data) :
          a # b => ~SameKey(crypto_data[a], crypto_data[b])
    /\ \A t \in Tasks :
          /\ (Len(ended[t]) >= 2 /\ \A k \in 1..2 : ended[t][k].outcome = "returned")
                => \A k \in 1..Len(given) : Cardinality(KeyRows(given[k])) = 1
          /\ (Len(ended[t]) >= 1 /\ ended[t][1].outcome = "returned" /\ LoadReturned(t))
                => \A k \in 1..Len(given) : Cardinality(KeyRows(given[k])) = 1
          /\ ppc[t] = "raised" =>
                /\ db_calls[t] # <<>>
                /\ ~db_calls[t][Len(db_calls[t])].ok

\* load() has returned twice for a list of two records with different keys:
\* two rows, and the raw rows of both loads
C6_Witness ==
    \E t \in Tasks :
        /\ Len(ended[t]) = 2
        /\ \A k \in 1..2 : ended[t][k].outcome = "returned"
        /\ Len(given) = 2
        /\ Len(crypto_data) = 2
        /\ Len(raw_tables) = 4

\* C7: within one load() every save_checkpoint comes directly after the
\* successful save_normalized_data of its batch, its records_processed is at
\* most the number of records this load has written so far, and every record
\* it counts has its row in crypto_data.
C7_CheckpointNeverAhead ==
    \A t \in Tasks :
        \A k \in CallsOf(db_calls[t], "save_checkpoint") :
            /\ k > 1
            /\ db_calls[t][k - 1].op = "save_normalized_data"
            /\ db_calls[t][k - 1].ok
            /\ db_calls[t][k].n <= Written(db_calls[t], k - 1)
            /\ db_calls[t][k].n <= Len(normalized_data[t])
            /\ \A j \in 1..db_calls[t][k].n : KeyRows(normalized_data[t][j]) # {}

\* a load has saved the checkpoints of two batches
C7_Witness ==
    \E t \in Tasks :
        /\ Cardinality(OkCallsOf(db_calls[t], "save_checkpoint")) = 2
        /\ get_last_checkpoint(etl_checkpoints, src[t]).records_processed = 2

CheckpointPerBatch(t) ==
    /\ \A k \in OkCallsOf(db_calls[t], "save_normalized_data") :
          k < Len(db_calls[t]) =>
              /\ db_calls[t][k + 1].op = "save_checkpoint"
              /\ db_calls[t][k + 1].n = Written(db_calls[t], k)
    /\ (ppc[t] = "returned" /\ normalized_data[t] # <<>>) =>
          /\ Cardinality(OkCallsOf(db_calls[t], "save_checkpoint")) =
                Cardinality(OkCallsOf(db_calls[t], "save_normalized_data"))
          /\ CheckpointRows(src[t]) # {}
          /\ LET last == CHOOSE m \in CheckpointRows(src[t]) :
                            \A n \in CheckpointRows(src[t]) : n <= m
             IN  etl_checkpoints[last].records_processed = Len(normalized_data[t])

\* C10 as stated: with checkpointing enabled the load() of every pipeline,
\* CoinPaprika, CoinGecko and CSV, saves one checkpoint after each batch
\* written, with the cumulative number of records written, the last one of a
\* successful load recording the total.
C10_CheckpointPerBatch ==
    \A t \in Tasks :
        (entry = "load" /\ settings.CHECKPOINT_ENABLED) => CheckpointPerBatch(t)

\* C10 amended: the same for the load() of the CoinPaprika and CoinGecko
\* pipelines.
C10_CheckpointPerBatchOfBatchingLoads ==
    \A t \in Tasks :
        (entry = "load" /\ settings.CHECKPOINT_ENABLED /\ src[t] \in BatchingSources)
            => CheckpointPerBatch(t)

\* a load of two batches has returned, with checkpoints recording 1 and 2
C10_Witness ==
    \E t \in Tasks :
        /\ LoadReturned(t)
        /\ src[t] \in BatchingSources
        /\ Len(normalized_data[t]) = 2
        /\ \E k \in OkCallsOf(db_calls[t], "save_checkpoint") : db_calls[t][k].n = 1
        /\ \E k \in OkCallsOf(db_calls[t], "save_checkpoint") : db_calls[t][k].n = 2

-----------------------------------------------------------------------------
(* Claims about extract() of the HTTP pipelines *)

HttpSources == {"coinpaprika", "coingecko"}

\* extract() has returned and its caller has not moved on since
JustExtracted(t) ==
    \/ ppc[t] = "transform"
    \/ /\ ppc[t] = "returned"
       /\ entry = "extract"
    \/ /\ ppc[t] = "returned"
       /\ raw_data[t] = <<>>
       /\ CallsOf(db_calls[t], "log_run") = {}

\* extract() has raised and its caller has not moved on since
JustFailedExtract(t) ==
    /\ \/ ppc[t] = "except"
       \/ ppc[t] = "raised" /\ entry = "extract"
    /\ exc[t] \in {"ClientError", "RetriesExhausted", "TimeoutError"}

\* C11: extract() of an HTTP pipeline always terminates.  Every attempt that
\* is answered 429 or raises a client error is counted in retry_count, which
\* never passes ETL_MAX_RETRIES; an extract() that returns has returned the
\* whole served list within ETL_MAX_RETRIES attempts; when the attempts are
\* used up extract() raises and hands run() no list, empty or partial; and on
\* a running event loop a pipeline does not stay in the retry loop.
C11_ExtractTerminates ==
    /\ [](\A t \in Tasks :
            /\ retry_count[t] <= ETL_MAX_RETRIES
            /\ (JustExtracted(t) /\ src[t] \in HttpSources)
                  => /\ retry_count[t] + 1 <= ETL_MAX_RETRIES
                     /\ raw_data[t] = Served(src[t])
            /\ (JustFailedExtract(t) /\ exc[t] # "TimeoutError")
                  => /\ retry_count[t] = ETL_MAX_RETRIES
                     /\ raw_data[t] = <<>>)
    /\ [][\A t \in Tasks :
            /\ (ppc[t] = "fetch" /\ ppc'[t] = "fetch")
                  => retry_count'[t] = retry_count[t] + 1
            /\ (ppc[t] = "fetch" /\ retry_count[t] >= ETL_MAX_RETRIES)
                  => /\ ppc'[t] \in {"except", "raised"}
                     /\ exc'[t] = "RetriesExhausted"
                     /\ raw_data'[t] = <<>>]_vars
    /\ []<>(\A t \in Tasks : ppc[t] # "fetch")

\* three attempts, rate limited and failing in a mix, and extract() has raised
C11_Witness ==
    \E t \in Tasks :
        /\ JustFailedExtract(t)
        /\ exc[t] = "RetriesExhausted"
        /\ retry_count[t] = ETL_MAX_RETRIES
        /\ waits[t] = <<calculate_backoff(0), calculate_backoff(2),
                        calculate_backoff(2)>>

\* the delays slept are those of rate-limit answers only
RateLimitedOnly(t) ==
    \A k \in 1..Len(waits[t]) : waits[t][k] = calculate_backoff(k - 1)

\* C12: when extract() of an HTTP pipeline returns after k failed attempts
\* (k < ETL_MAX_RETRIES), it returns the served records without an error after
\* exactly k backoff waits and with retry_count = k; the wait after the j-th
\* failed attempt is calculate_backoff(j - 1) when the answer was 429 and
\* calculate_backoff(j) when the request raised a client error.
C12_SuccessAfterRateLimits ==
    \A t \in Tasks :
        (JustExtracted(t) /\ src[t] \in HttpSources)
            => /\ retry_count[t] < ETL_MAX_RETRIES
               /\ Len(waits[t]) = retry_count[t]
               /\ raw_data[t] = Served(src[t])
               /\ exc[t] = "none"
               /\ \A k \in 1..Len(waits[t]) :
                     waits[t][k] \in {calculate_backoff(k - 1), calculate_backoff(k)}

\* two rate-limit answers, then the list
C12_Witness ==
    \E t \in Tasks :
        /\ JustExtracted(t)
        /\ src[t] \in HttpSources
        /\ retry_count[t] = 2
        /\ waits[t] = <<calculate_backoff(0), calculate_backoff(1)>>
        /\ RateLimitedOnly(t)
        /\ raw_data[t] = Served(src[t])
        /\ raw_data[t] # <<>>
        /\ exc[t] = "none"

\* extract() called by the driver has returned its list
ExtractReturned(t) == entry = "extract" /\ ppc[t] = "returned"

\* C27: the records extract() returns do not depend on the checkpoint store.
\* Whatever checkpoints there are, open or completed, an extract() that
\* returns has returned what the source served (the first TopN items of it
\* for CoinPaprika), a function of the responses alone; the store is read at
\* most once, by CoinPaprika before its first fetch, and never written.
C27_ExtractIgnoresCheckpoint ==
    \A t \in Tasks :
        /\ entry = "extract" => etl_checkpoints \in LeftCheckpoints(target)
        /\ ExtractReturned(t)
              => /\ raw_data[t] =
                       SubSeq(upstream[src[t]], 1,
                              IF src[t] = "coinpaprika"
                              THEN Min(TopN, Len(upstream[src[t]]))
                              ELSE Len(upstream[src[t]]))
                 /\ CallsOf(db_calls[t], "get_last_checkpoint")
                       = IF src[t] = "coinpaprika" THEN {1} ELSE {}

\* CoinPaprika's extract() found an open checkpoint of one record and
\* returned both items served
C27_Witness ==
    \E t \in Tasks :
        /\ ExtractReturned(t)
        /\ src[t] = "coinpaprika"
        /\ get_last_checkpoint(etl_checkpoints, src[t]).found
        /\ db_calls[t][1] = Call("get_last_checkpoint", TRUE, 1, 0)
        /\ Len(raw_data[t]) = 2

\* C35: the backoff waits of extract() depend on the number of failed attempts
\* only, not on their kind: after r failed attempts, rate-limited or failed
\* with a client error, extract() has slept r times, for calculate_backoff(0),
\* ..., calculate_backoff(r - 1) as it does after r rate-limited attempts.
C35_SameWaitsForBothFailures ==
    \A t \in Tasks :
        (entry = "extract" /\ src[t] \in BatchingSources) =>
            /\ Len(waits[t]) = retry_count[t]
            /\ \A k \in 1..Len(waits[t]) : waits[t][k] = calculate_backoff(k - 1)
-----------------------------------------------------------------------------
(* Claims about calculate_backoff *)

DefaultBackoff ==
    /\ settings.BACKOFF_BASE_DELAY = BACKOFF_BASE_DELAY
    /\ settings.BACKOFF_FACTOR = BACKOFF_FACTOR
    /\ settings.BACKOFF_MAX_DELAY = BACKOFF_MAX_DELAY

\* C13: calculate_backoff(r) is min(base_delay * factor^r, max_delay).  For
\* base_delay >= 0 and factor >= 1 the delays of growing retry counts never
\* decrease and never pass max_delay; below the cap they strictly increase
\* when base_delay > 0 and factor > 1, as under the default configuration,
\* where the delays of retries 0, 1, 2 are 1 < 2 < 4.
C13_BackoffMonotoneAndCapped ==
    \A t \in Tasks :
        entry = "backoff" =>
            /\ \A r \in 1..Len(waits[t]) :
                  /\ waits[t][r] = Min(settings.BACKOFF_BASE_DELAY
                                          * Pow(settings.BACKOFF_FACTOR, r - 1),
                                       settings.BACKOFF_MAX_DELAY)
                  /\ waits[t][r] <= settings.BACKOFF_MAX_DELAY
            /\ \A r1, r2 \in 1..Len(waits[t]) :
                  r1 < r2 =>
                     /\ waits[t][r1] <= waits[t][r2]
                     /\ ( /\ settings.BACKOFF_BASE_DELAY > 0
                          /\ settings.BACKOFF_FACTOR > 1
                          /\ waits[t][r2] < settings.BACKOFF_MAX_DELAY )
                           => waits[t][r1] < waits[t][r2]
            /\ (DefaultBackoff /\ Len(waits[t]) >= 3)
                  => SubSeq(waits[t], 1, 3) = <<1, 2, 4>>

\* the default configuration, from the first delay up to the capped ones
C13_Witness ==
    \E t \in Tasks :
        /\ entry = "backoff"
        /\ DefaultBackoff
        /\ Len(waits[t]) = 8
        /\ waits[t] = <<1, 2, 4, 8, 16, 32, 60, 60>>
-----------------------------------------------------------------------------
(* Claims about transform() *)

\* transform() called by the driver has returned its list
TransformReturned(t) == entry = "transform" /\ ppc[t] = "returned"

\* C14: schema-drift detection never blocks ingestion.  Once the drift check
\* of transform() has found warnings and called log_schema_drift, whether the
\* call returned or raised, the run is not ended by that call.
C14_DriftNeverBlocks ==
    \A t \in Tasks :
        CallsOf(db_calls[t], "log_schema_drift") # {}
            => ~(ppc[t] \in {"except", "raised"} /\ exc[t] = "log_schema_drift")

\* C15: an item that fails validation or conversion never aborts the batch.
\* transform() is never left by the exception of an item, whichever the items
\* and wherever they stand, and every item that yields a record has its
\* record in the list returned.
C15_FailingItemNeverAborts ==
    \A t \in Tasks :
        /\ exc[t] # "AttributeError"
        /\ TransformReturned(t)
              => \A k \in 1..Len(raw_data[t]) :
                    Valid(src[t], raw_data[t][k])
                       => \E j \in 1..Len(normalized_data[t]) :
                             normalized_data[t][j].raw_data = raw_data[t][k]

\* C16: for every pipeline an item that lacks the fields its source declares
\* yields no record: each record returned was built from an item with the
\* declared fields.
C16_ItemsWithoutFieldsDropped ==
    \A t \in Tasks :
        TransformReturned(t)
            => \A j \in 1..Len(normalized_data[t]) :
                  normalized_data[t][j].raw_data.shape = "ok"

\* out is inp with some of its elements left out
IsSubsequence(out, inp) ==
    \E f \in [1..Len(out) -> 1..Len(inp)] :
        /\ \A j, k \in 1..Len(out) : j < k => f[j] < f[k]
        /\ \A j \in 1..Len(out) : out[j] = inp[f[j]]

\* C17: the list transform() returns is never longer than its input, and its
\* records come from distinct input items in the order of the input.
C17_OutputIsSubsequence ==
    \A t \in Tasks :
        TransformReturned(t)
            => /\ Len(normalized_data[t]) <= Len(raw_data[t])
               /\ IsSubsequence(RawOf(normalized_data[t]), raw_data[t])
               /\ \A j \in 1..Len(normalized_data[t]) :
                     normalized_data[t][j].source = src[t]

\* the CSV pipeline dropped the first of two items and kept the second
C17_Witness ==
    \E t \in Tasks :
        /\ TransformReturned(t)
        /\ src[t] = "csv"
        /\ raw_data[t] = <<Item("unknown", ""), Item("ok", "eth")>>
        /\ SymbolsOf(normalized_data[t]) = <<"ETH">>
        /\ RawOf(normalized_data[t]) = <<Item("ok", "eth")>>

\* C18: every normalized record, of whichever pipeline, carries its symbol
\* upper-cased.
C18_SymbolUpperCased ==
    \A t \in Tasks :
        \A j \in 1..Len(normalized_data[t]) :
            normalized_data[t][j].symbol = Upper(normalized_data[t][j].symbol)
-----------------------------------------------------------------------------
(* Claims about an empty extraction *)

\* run() has returned and its extract() had returned no item
EmptyRunReturned(t) ==
    /\ entry \in {"run", "run_full_etl"}
    /\ ppc[t] = "returned"
    /\ raw_data[t] = <<>>

\* C19: when extract() returns an empty list, run() returns status success
\* with 0 records and calls neither transform() nor load(): the run makes no
\* call on the storage collaborator but the checkpoint read of extract(), the
\* step that returns leaves every table as it was, and no raw row, normalized
\* row, checkpoint or drift log comes from that run.
C19_EmptyExtractionWritesNothing ==
    /\ [](\A t \in Tasks :
            EmptyRunReturned(t)
               => /\ result[t] = [status |-> "success", records_processed |-> 0,
                                  error |-> "none"]
                  /\ normalized_data[t] = <<>>
                  /\ \A k \in 1..Len(db_calls[t]) :
                        db_calls[t][k].op = "get_last_checkpoint"
                  /\ (entry = "run" /\ ncalls = 1)
                        => /\ crypto_data = <<>>
                           /\ raw_tables = <<>>
                           /\ etl_checkpoints = <<>>
                           /\ etl_runs = <<>>
                           /\ schema_drift_logs = <<>>)
    /\ [][\A t \in Tasks :
            (ppc[t] \in {"fetch", "read_csv"} /\ ppc'[t] = "returned")
               => /\ raw_data'[t] = <<>>
                  /\ storage' = storage]_vars

\* the API answered 200 with an empty list after one rate-limit answer
C19_Witness ==
    \E t \in Tasks :
        /\ EmptyRunReturned(t)
        /\ src[t] = "coinpaprika"
        /\ retry_count[t] = 1
        /\ Len(db_calls[t]) = 1
        /\ db_calls[t][1].op = "get_last_checkpoint"
        /\ result[t].status = "success"
        /\ result[t].records_processed = 0
-----------------------------------------------------------------------------
(* Claims about pipelines of different sources run at once *)

\* the rows of one source in a table, in the order they were written
Proj(table, s) == SelectSeq(table, LAMBDA r : r.source = s)

\* the checkpoint rows a pipeline leaves when its storage calls are made on a
\* storage nobody else writes to
RECURSIVE ReplayCheckpoints(_, _)
ReplayCheckpoints(calls, s) ==
    IF calls = <<>> THEN <<>>
    ELSE LET before == ReplayCheckpoints(SubSeq(calls, 1, Len(calls) - 1), s)
             c == calls[Len(calls)]
         IN  CASE c.op = "save_checkpoint" /\ c.ok ->
                     save_checkpoint(before, s, c.m, c.n)
               [] c.op = "mark_checkpoint_completed" /\ c.ok ->
                     mark_checkpoint_completed(before, s)
               [] OTHER -> before

\* how many of the records handed to a storage call may have been written:
\* all of them when the call returned, a proper prefix when it raised
WrittenBy(c) == IF c.ok THEN {c.n} ELSE 0..(IF c.n = 0 THEN 0 ELSE c.n - 1)

\* the rows of its source that the first run of task t leaves in each table
\* are those its own storage calls give on a storage of its own
RowsAsWhenAlone(t) ==
    LET s == src[t]
        calls == db_calls[t]
        nd == normalized_data[t]
        raws == CallsOf(calls, "save_raw_data")
        failed == FailedCallsOf(calls, "save_normalized_data")
        okw == Written(calls, Len(calls))
        runs == Proj(etl_runs, s)
    IN  /\ Proj(etl_checkpoints, s) = ReplayCheckpoints(calls, s)
        /\ \E j \in (IF failed = {} THEN {0}
                     ELSE WrittenBy(calls[CHOOSE k \in failed : TRUE])) :
              Proj(crypto_data, s) = save_normalized_data(<<>>, SubSeq(nd, 1, okw + j))
        /\ \E j \in (IF raws = {} THEN {0}
                     ELSE WrittenBy(calls[CHOOSE k \in raws : TRUE])) :
              Proj(raw_tables, s) =
                  save_raw_data(<<>>, s, SubSeq(RawOf(nd), 1, j),
                                SubSeq(SymbolsOf(nd), 1, j))
        /\ Proj(schema_drift_logs, s) =
              IF OkCallsOf(calls, "log_schema_drift") = {} THEN <<>>
              ELSE log_schema_drift(<<>>, s, Confidence(s, raw_data[t][1]),
                                    Warnings(s, raw_data[t][1]))
        /\ Len(runs) = Cardinality(CallsOf(calls, "log_run"))
        /\ Len(runs) <= 1
        /\ Len(runs) = 1 =>
              /\ runs[1].start_time = start_time[t]
              /\ \/ /\ ppc[t] = "returned"
                    /\ runs[1].status = "success"
                    /\ runs[1].records_processed = Len(nd)
                    /\ runs[1].error_message = "none"
                 \/ /\ ppc[t] = "raised"
                    /\ runs[1].status = "failed"
                    /\ runs[1].records_processed = 0
                    /\ runs[1].error_message = exc[t]

\* the task that takes the step
Steps(t) == <<ppc[t], db_calls[t], i[t]>>' # <<ppc[t], db_calls[t], i[t]>>

\* C20: pipelines of different sources are safe to run at once.  However the
\* storage calls of two pipelines of different sources interleave, the
\* normalized rows, raw rows, checkpoints, run-log entries and drift logs of
\* each source are those the pipeline of that source leaves when it runs with
\* the storage to itself, and no step of one pipeline, its checkpoint
\* completion included, changes a row of the other source.
C20_DifferentSourcesDoNotInterfere ==
    /\ [](\A t \in Tasks :
            (entry = "pair" /\ ppc[t] # "idle") => RowsAsWhenAlone(t))
    /\ [][\A t \in Tasks :
            (entry = "pair" /\ Steps(t))
                => \A s \in Sources \ {src[t], src'[t]} :
                      /\ Proj(crypto_data', s) = Proj(crypto_data, s)
                      /\ Proj(raw_tables', s) = Proj(raw_tables, s)
                      /\ Proj(etl_checkpoints', s) = Proj(etl_checkpoints, s)
                      /\ Proj(etl_runs', s) = Proj(etl_runs, s)
                      /\ Proj(schema_drift_logs', s) = Proj(schema_drift_logs, s)]_vars

\* both pipelines have finished; the second completed its checkpoints while
\* the first, which failed, still has an open one
C20_Witness ==
    /\ entry = "pair"
    /\ ppc[1] = "raised"
    /\ ppc[2] = "returned"
    /\ src[1] = "coinpaprika"
    /\ src[2] = "coingecko"
    /\ \E k \in 1..Len(etl_checkpoints) :
          etl_checkpoints[k].source = src[1] /\ ~etl_checkpoints[k].completed
    /\ \E k \in 1..Len(etl_checkpoints) :
          etl_checkpoints[k].source = src[2] /\ etl_checkpoints[k].completed
    /\ \A k \in 1..Len(etl_checkpoints) :
          etl_checkpoints[k].source = src[2] => etl_checkpoints[k].completed
    /\ Len(etl_checkpoints) >= 3
    /\ etl_checkpoints[1].source = src[1]
    /\ etl_checkpoints[2].source = src[2]
    /\ etl_checkpoints[Len(etl_checkpoints)].source = src[1]
-----------------------------------------------------------------------------
(* Claims on detect_schema_drift *)

DetectOver(t) == entry = "detect_schema_drift" /\ ppc[t] \in {"returned", "raised"}

\* C21: when detect_schema_drift is over, its missing keys are the expected
\* keys the sample lacks, its extra keys the keys of the sample that are not
\* expected, it holds a rename hint missing -> best for exactly the missing
\* keys whose most similar extra key scores at least the threshold, best
\* being an extra key no other extra key outscores, and its confidence is
\* (expected keys present + rename hints) / expected keys, 1.0 when no key is
\* expected
C21_DriftReport ==
    \A t \in Tasks :
        DetectOver(t) =>
            LET r == result[t]
                missing == {k \in given.expected : k \notin given.actual}
                extra == {k \in given.actual : k \notin given.expected}
                present == {k \in given.expected : k \in given.actual}
            IN  /\ r.missing_keys = missing
                /\ r.extra_keys = extra
                /\ DOMAIN r.fuzzy_matches =
                      {m \in missing :
                          \E a \in extra : given.score[<<m, a>>] >= SCHEMA_DRIFT_THRESHOLD}
                /\ \A m \in DOMAIN r.fuzzy_matches :
                      /\ r.fuzzy_matches[m] \in extra
                      /\ \A a \in extra :
                            given.score[<<m, a>>] <= given.score[<<m, r.fuzzy_matches[m]>>]
                /\ IF given.expected = {}
                   THEN r.confidence.matched = r.confidence.total_expected
                   ELSE /\ r.confidence.total_expected = Cardinality(given.expected)
                        /\ r.confidence.matched =
                              Cardinality(present) + Cardinality(DOMAIN r.fuzzy_matches)

\* the example of the claim: expected {a, b, c}, observed {a, b, d}, c and d
\* alike: the hint c -> d and confidence 3/3
C21_Witness ==
    \E t \in Tasks :
        /\ DetectOver(t)
        /\ given.expected = {"a", "b", "c"} /\ given.actual = {"a", "b", "d"}
        /\ given.score[<<"c", "d">>] >= SCHEMA_DRIFT_THRESHOLD
        /\ result[t].fuzzy_matches = [m \in {"c"} |-> "d"]
        /\ result[t].confidence = [matched |-> 3, total_expected |-> 3]

\* C22: the confidence of every call of detect_schema_drift lies in [0, 1]
C22_ConfidenceInUnitInterval ==
    \A t \in Tasks :
        DetectOver(t) =>
            /\ result[t].confidence.total_expected > 0
            /\ 0 <= result[t].confidence.matched
            /\ result[t].confidence.matched <= result[t].confidence.total_expected

\* two missing keys match the same extra key, and every expected key counts
\* as matched
C22_Witness ==
    \E t \in Tasks :
        /\ DetectOver(t)
        /\ DOMAIN result[t].fuzzy_matches = {"b", "c"}
        /\ result[t].fuzzy_matches["b"] = result[t].fuzzy_matches["c"]
        /\ result[t].confidence.matched = result[t].confidence.total_expected

\* transform() called by the driver has returned or raised
TransformOver(t) == entry = "transform" /\ ppc[t] \in {"returned", "raised"}

\* comparing the first item of the batch with the expected schema yields a
\* rename hint or a type mismatch
FirstItemWarns(t) ==
    /\ raw_data[t] # <<>>
    /\ raw_data[t][1].shape \in {"renamed", "mistyped"}

\* C23: a call of transform() forwards at most one drift report to
\* log_schema_drift, and when the call is over it has forwarded one exactly if
\* detection is enabled, the batch is not empty and its first item gives a
\* warning; the other items of the batch play no part.
C23_OneReportForFirstItem ==
    \A t \in Tasks :
        /\ Cardinality(CallsOf(db_calls[t], "log_schema_drift")) <= 1
        /\ TransformOver(t)
              => (CallsOf(db_calls[t], "log_schema_drift") # {}
                    <=> settings.SCHEMA_DRIFT_ENABLED /\ FirstItemWarns(t))

\* a report was forwarded for a first item with a value of another type,
\* followed by a renamed item
C23_Witness ==
    \E t \in Tasks :
        /\ TransformOver(t)
        /\ raw_data[t] = <<Item("mistyped", "BTC"), Item("renamed", "BTC")>>
        /\ Cardinality(CallsOf(db_calls[t], "log_schema_drift")) = 1

\* C39: whenever the sample lacks an expected key, detect_schema_drift holds
\* at least one warning when it is over and has called log_schema_drift,
\* whether or not an extra key resembles the missing one.
C39_MissingFieldIsReported ==
    \A t \in Tasks :
        (DetectOver(t) /\ result[t].missing_keys # {}) =>
            /\ result[t].warnings # {}
            /\ CallsOf(db_calls[t], "log_schema_drift") # {}
-----------------------------------------------------------------------------
(* Claims on the order of the stages and of the pipelines *)

ExtractPcs == {"extract_checkpoint", "fetch", "read_csv"}
TransformPcs == {"transform", "normalize"}
LoadPcs == {"load", "load_loop", "load_all", "load_checkpoint"}

\* the stage of run() a position belongs to; the position itself outside the
\* three stages
StageOf(pc) ==
    CASE pc \in ExtractPcs -> "extract"
      [] pc \in TransformPcs -> "transform"
      [] pc \in LoadPcs -> "load"
      [] OTHER -> pc

\* C24: execution is strictly sequential.  Within run(), transform() is
\* entered only from extract(), which has returned a list without raising,
\* load() only from transform(), which has returned without raising, and
\* once a stage has raised no stage is entered any more; within run_full_etl
\* a pipeline is started only when every pipeline started before has
\* returned or raised, and it is the next one in registration order.
C24_StrictlySequential ==
    [][\A t \in Tasks :
          LET from == StageOf(ppc[t])
              to == StageOf(ppc'[t])
          IN  /\ (to = "extract" /\ from # "extract")
                    => /\ from = "idle"
                       /\ Len(ended[t]) = Len(run_calls[t])
                       /\ run_calls'[t] = Append(run_calls[t], src'[t])
                       /\ src'[t] = PipelineOrder[Len(ended[t]) + 1]
              /\ (to = "transform" /\ from # "transform")
                    => from = "extract" /\ exc'[t] = "none"
              /\ (to = "load" /\ from # "load")
                    => from = "transform" /\ exc'[t] = "none"
              /\ from = "except" => to \in {"except", "raised"}
              /\ to = "raised" => from \in {"except", "raised"}]_vars

\* the third pipeline is loading after the first raised and the second
\* returned
C24_Witness ==
    \E t \in Tasks :
        /\ entry = "run_full_etl"
        /\ StageOf(ppc[t]) = "load"
        /\ src[t] = PipelineOrder[3]
        /\ Len(ended[t]) = 2
        /\ ended[t][1].outcome = "raised"
        /\ ended[t][2].outcome = "returned"
-----------------------------------------------------------------------------
(* Claims on run_single_source, under SpecSingle *)

\* the step is call number n of run_single_source
IsSingleCallStep == entry = "run_single_source" /\ ncalls' = ncalls + 1

\* C25: a call of run_single_source with an unregistered name raises the
\* unknown-source error at once: no pipeline is started, nothing is written
\* to storage or to the run log, and the state the next call finds is the one
\* this call found.
C25_UnknownSourceFailsClean ==
    [][\A t \in Tasks :
          (IsSingleCallStep /\ target[ncalls'] \notin Sources)
              => /\ opc'[t] = "raised_value_error"
                 /\ storage' = storage
                 /\ pipeLocals' = pipeLocals
                 /\ run_calls' = run_calls
                 /\ ended' = ended
                 /\ results' = results]_vars

\* an unregistered name raised, and the call after it, of a registered
\* source, ran the pipeline and returned its records
C25_Witness ==
    \E t \in Tasks :
        /\ entry = "run_single_source"
        /\ ncalls = 2
        /\ target[1] \notin Sources
        /\ target[2] \in Sources
        /\ opc[t] = "returned"
        /\ run_calls[t] = <<target[2]>>
        /\ results[t][target[2]].records_processed > 0

\* the row log_run appends last
LastRun == etl_runs[Len(etl_runs)]

-----------------------------------------------------------------------------
(* Claims on the checkpoint operations, under SpecCheckpoints *)

\* the last call of the driver was get_last_checkpoint
JustGot(t) ==
    /\ entry = "checkpoints"
    /\ run_calls[t] # <<>>
    /\ run_calls[t][Len(run_calls[t])].op = "get_last_checkpoint"

\* the calls of `op` for `source` among the first n calls of the driver
CallsFor(t, op, source, n) ==
    {k \in 1..n : run_calls[t][k].op = op /\ run_calls[t][k].source = source}

Latest(S) == CHOOSE k \in S : \A j \in S : j <= k

\* C28: checkpoint completion is one-way.  No call turns a completed row back
\* into an open one, removes it or changes it, and what get_last_checkpoint
\* returns is never a completed row: it is the marker and count of an open
\* row of the source, or none when the source has no open row.
C28_CompletionIsOneWay ==
    [][\A t \in Tasks :
          entry = "checkpoints" =>
              /\ Len(etl_checkpoints') >= Len(etl_checkpoints)
              /\ \A k \in 1..Len(etl_checkpoints) :
                    etl_checkpoints[k].completed
                        => etl_checkpoints'[k] = etl_checkpoints[k]
              /\ JustGot(t)' /\ run_calls' # run_calls =>
                    LET s == run_calls'[t][Len(run_calls'[t])].source
                        open == {k \in 1..Len(etl_checkpoints) :
                                    /\ etl_checkpoints[k].source = s
                                    /\ ~etl_checkpoints[k].completed}
                    IN  IF open = {} THEN ~result'[t].found
                        ELSE /\ result'[t].found
                             /\ \E k \in open :
                                   /\ etl_checkpoints[k].last_index = result'[t].last_index
                                   /\ etl_checkpoints[k].records_processed
                                         = result'[t].records_processed]_vars

\* a source has a completed row and an open one saved after it, with another
\* marker, and get_last_checkpoint has returned the open one
C28_Witness ==
    \E t \in Tasks :
        /\ JustGot(t)
        /\ Len(run_calls[t]) = 4
        /\ Len(etl_checkpoints) = 2
        /\ etl_checkpoints[1].source = etl_checkpoints[2].source
        /\ run_calls[t][4].source = etl_checkpoints[1].source
        /\ etl_checkpoints[1].completed /\ ~etl_checkpoints[2].completed
        /\ etl_checkpoints[1].last_index # etl_checkpoints[2].last_index
        /\ result[t].found
        /\ result[t].last_index = etl_checkpoints[2].last_index

\* C29: get_last_checkpoint(source) returns exactly the marker and the count
\* of the latest save_checkpoint for that source when no
\* mark_checkpoint_completed for the source has come after that save,
\* whatever was done for other sources in between, and none when the source
\* has no save since its last mark_checkpoint_completed.
C29_LatestOpenCheckpointReturned ==
    \A t \in Tasks :
        JustGot(t) =>
            LET n == Len(run_calls[t])
                s == run_calls[t][n].source
                saves == CallsFor(t, "save_checkpoint", s, n)
                marks == CallsFor(t, "mark_checkpoint_completed", s, n)
            IN  IF saves # {} /\ \A k \in marks : k < Latest(saves)
                THEN result[t] = [found |-> TRUE,
                                  last_index |-> run_calls[t][Latest(saves)].marker,
                                  records_processed |-> run_calls[t][Latest(saves)].records]
                ELSE result[t] = NoCheckpoint

\* two saves for one source with a save for another source between them, and
\* the second one is what get_last_checkpoint returns
C29_Witness ==
    \E t \in Tasks :
        /\ JustGot(t)
        /\ Len(run_calls[t]) = 4
        /\ \A k \in 1..3 : run_calls[t][k].op = "save_checkpoint"
        /\ run_calls[t][1].source = run_calls[t][4].source
        /\ run_calls[t][2].source # run_calls[t][4].source
        /\ run_calls[t][3].source = run_calls[t][4].source
        /\ run_calls[t][1].marker # run_calls[t][3].marker
        /\ run_calls[t][2].marker # run_calls[t][3].marker
        /\ result[t].last_index = run_calls[t][3].marker
        /\ result[t].records_processed = run_calls[t][3].records
-----------------------------------------------------------------------------
(* Claims on the raw payloads, under SpecLoad *)

\* C30: persisting the raw payloads is best-effort.  The save_raw_data call
\* of a load() comes before its first save_normalized_data call, and a
\* save_raw_data call that failed never ends load(): load() is not left by
\* its exception, and goes on to write the normalized records.
C30_RawSaveBestEffort ==
    \A t \in Tasks :
        /\ \A k \in CallsOf(db_calls[t], "save_normalized_data") :
              \E j \in CallsOf(db_calls[t], "save_raw_data") : j < k
        /\ FailedCallsOf(db_calls[t], "save_raw_data") # {}
              => ~(ppc[t] \in {"raised", "except"} /\ exc[t] = "save_raw_data")

-----------------------------------------------------------------------------
(* Claims on the CSV pipeline end to end, under SpecCsv *)

\* the rows extract() of the CSV pipeline finds
CsvFile == IF entry = "run_without_file" THEN SampleCsv ELSE upstream["csv"]

\* a file of coins: at least one row, and no symbol on two rows
DistinctCoins(rows) ==
    /\ rows # <<>>
    /\ \A j, k \in 1..Len(rows) :
          j # k => Upper(rows[j].symbol) # Upper(rows[k].symbol)

\* run() has returned its result to the driver
RunReturned(t) ==
    /\ entry \in {"run", "run_without_file"}
    /\ ppc[t] = "returned"

\* C31: end to end for the CSV source.  With n well-formed rows of n coins in
\* the file, a run() that returns has extracted n raw items, transformed them
\* into n records with upper-cased symbols in the order of the file, stored n
\* raw rows and n normalized rows, written one run-log row of status success
\* and n records, and returned status success with records_processed = n.
C31_CsvEndToEnd ==
    \A t \in Tasks :
        (RunReturned(t) /\ src[t] = "csv" /\ DistinctCoins(CsvFile)) =>
            LET n == Len(CsvFile)
            IN  /\ raw_data[t] = CsvFile
                /\ Len(normalized_data[t]) = n
                /\ \A k \in 1..n :
                      /\ normalized_data[t][k].symbol = Upper(CsvFile[k].symbol)
                      /\ normalized_data[t][k].source = "csv"
                /\ Len(raw_tables) = n
                /\ \A k \in 1..n : raw_tables[k].data = CsvFile[k]
                /\ Len(crypto_data) = n
                /\ \A k \in 1..n : crypto_data[k].symbol = Upper(CsvFile[k].symbol)
                /\ result[t].status = "success"
                /\ result[t].records_processed = n
                /\ Len(etl_runs) = 1
                /\ etl_runs[1].source = "csv"
                /\ etl_runs[1].status = "success"
                /\ etl_runs[1].records_processed = n

\* the stated case: no file, the five sample rows BTC, ETH, BNB, SOL, ADA
C31_Witness ==
    \E t \in Tasks :
        /\ RunReturned(t)
        /\ entry = "run_without_file"
        /\ SymbolsOf(normalized_data[t]) = <<"BTC", "ETH", "BNB", "SOL", "ADA">>
        /\ Len(raw_tables) = 5
        /\ Len(crypto_data) = 5
        /\ result[t] = [status |-> "success", records_processed |-> 5, error |-> "none"]
        /\ Len(etl_runs) = 1
-----------------------------------------------------------------------------
\* the save_normalized_data calls of task t, in the order they were made
SaveCalls(t) == SelectSeq(db_calls[t], LAMBDA c : c.op = "save_normalized_data")

\* C32: for every positive checkpoint interval B, the k-th save_normalized_data
\* call of a load() of a batching pipeline is handed the records
\* (k-1)*B+1 .. min(k*B, len) of the list, in the order of the list: every batch
\* has B records except possibly a smaller last one, only the last call can have
\* failed, the rows in crypto_data are those of the records handed over so far,
\* and a load() that has returned has handed over every record exactly once.
C32_ConsecutiveBatches ==
    \A t \in Tasks :
        (entry = "load" /\ src[t] \in BatchingSources) =>
            LET B == settings.CHECKPOINT_INTERVAL
                nd == normalized_data[t]
                saves == SaveCalls(t)
                done == Written(db_calls[t], Len(db_calls[t]))
            IN  /\ \A k \in 1..Len(saves) :
                      /\ (k - 1) * B < Len(nd)
                      /\ saves[k].n = Min(B, Len(nd) - (k - 1) * B)
                      /\ k < Len(saves) => saves[k].ok /\ saves[k].n = B
                /\ \E j \in done..Min(done + B, Len(nd)) :
                      /\ crypto_data = save_normalized_data(<<>>, SubSeq(nd, 1, j))
                      /\ (saves = <<>> \/ saves[Len(saves)].ok) => j = done
                /\ LoadReturned(t) =>
                      /\ done = Len(nd)
                      /\ Len(saves) * B >= Len(nd)

\* a load() of three records under interval 2 has returned after a batch of
\* two and a batch of one
C32_Witness ==
    \E t \in Tasks :
        /\ LoadReturned(t)
        /\ settings.CHECKPOINT_INTERVAL = 2
        /\ Len(normalized_data[t]) = 3
        /\ Len(SaveCalls(t)) = 2
        /\ SaveCalls(t)[1].n = 2
        /\ SaveCalls(t)[2].n = 1
        /\ Len(crypto_data) = 3

\* C38: every checkpoint a load() has saved carries a last_index equal to its
\* records_processed and at most the number of records of the list.
C38_MarkerIsCount ==
    \A t \in Tasks :
        \A k \in OkCallsOf(db_calls[t], "save_checkpoint") :
            /\ db_calls[t][k].m = db_calls[t][k].n
            /\ db_calls[t][k].m <= Len(normalized_data[t])
-----------------------------------------------------------------------------
\* the load() of task u has saved a checkpoint and still has a batch to write
StillLoading(u) ==
    /\ ppc[u] \in {"load_loop", "load_checkpoint"}
    /\ Written(db_calls[u], Len(db_calls[u])) < Len(normalized_data[u])
    /\ OkCallsOf(db_calls[u], "save_checkpoint") # {}

\* C33: when two runs of the pipeline of one source interleave, no step turns a
\* checkpoint row of the source to completed while a run of that source that
\* has saved a checkpoint still has a batch to write.
C33_CompletedOnlyAfterEveryBatch ==
    [][\A k \in 1..Len(etl_checkpoints) :
          (~etl_checkpoints[k].completed /\ etl_checkpoints'[k].completed) =>
              ~\E u \in Tasks :
                  src[u] = etl_checkpoints[k].source /\ StillLoading(u)]_vars
-----------------------------------------------------------------------------
\* the second run() of task t has returned success, on the list the source
\* served before, after its first run() was left by an exception of load()
RerunAfterFailure(t) ==
    /\ entry = "rerun"
    /\ ppc[t] = "returned"
    /\ result[t].status = "success"
    /\ Len(ended[t]) = 1
    /\ ended[t][1].outcome = "raised"
    /\ raw_data[t] = Served(src[t])

\* C34: when a run that failed in load() is followed by a successful run on
\* the same source data, crypto_data holds the rows one successful run alone
\* leaves: one row per record of the list, and no second row for a symbol the
\* failed run had stored already.
C34_RerunIsIdempotent ==
    \A t \in Tasks :
        RerunAfterFailure(t) =>
            SymbolsOf(crypto_data) =
                SymbolsOf(save_normalized_data(<<>>, normalized_data[t]))

\* C37: when a run() has returned status success with checkpointing enabled,
\* get_last_checkpoint finds no open checkpoint of the source, also when an
\* earlier run of the source failed in load() and left one.
C37_NoOpenCheckpointAfterSuccess ==
    \A t \in Tasks :
        (/\ entry = "rerun"
         /\ ppc[t] = "returned"
         /\ result[t].status = "success"
         /\ settings.CHECKPOINT_ENABLED) =>
            get_last_checkpoint(etl_checkpoints, src[t]) = NoCheckpoint
-----------------------------------------------------------------------------
\* the raw rows a load() of task t appends: the payload and the symbol of each
\* normalized record it was given, in the order of the list
RawRowsOf(t) ==
    [k \in 1..Len(normalized_data[t]) |->
        [source |-> src[t], data |-> normalized_data[t][k].raw_data,
         source_id |-> normalized_data[t][k].symbol]]

\* the call of task t that the step has just made
JustCalled(t, op, ok) ==
    /\ Len(db_calls'[t]) = Len(db_calls[t]) + 1
    /\ db_calls'[t][Len(db_calls'[t])].op = op
    /\ db_calls'[t][Len(db_calls'[t])].ok = ok

\* C40: raw rows are only ever appended; the save_raw_data call of a load()
\* appends one raw row per normalized record it was given, carrying the
\* payload of that record, whether or not the payload is stored already; and
\* when load() has returned twice for the same list of n records the raw table
\* holds 2n rows and crypto_data one row per key of the list (n rows for n
\* records of different keys).
C40_RawRowsPerRecordNoDedup ==
    [][/\ Len(raw_tables') >= Len(raw_tables)
       /\ SubSeq(raw_tables', 1, Len(raw_tables)) = raw_tables
       /\ \A t \in Tasks :
             /\ JustCalled(t, "save_raw_data", TRUE) =>
                   raw_tables' = raw_tables \o RawRowsOf(t)
             /\ (/\ LoadReturned(t)'
                  /\ Len(ended'[t]) = 1
                  /\ ended'[t][1].outcome = "returned") =>
                   /\ Len(raw_tables') = 2 * Len(given)
                   /\ Len(crypto_data') = Cardinality({given[k] : k \in 1..Len(given)})]_vars

\* load() has returned twice for two records of different keys: the raw table
\* holds the two payloads twice, crypto_data the two records once
C40_Witness ==
    \E t \in Tasks :
        /\ LoadReturned(t)
        /\ Len(ended[t]) = 1
        /\ ended[t][1].outcome = "returned"
        /\ Len(given) = 2
        /\ given[1] # given[2]
        /\ Len(raw_tables) = 4
        /\ SubSeq(raw_tables, 3, 4) = SubSeq(raw_tables, 1, 2)
        /\ crypto_data = given
-----------------------------------------------------------------------------
=============================================================================
